---------------------------- MODULE Spec2Model ----------------------------
(***************************************************************************)
(* TrustOS v22 (src/extension/script.js, lines 1-820): the ensemble        *)
(* anomaly detectors, the weighted trust score, the persistence tracker,   *)
(* the verdict, and the asynchronous audit loop that drives them.          *)
(*                                                                         *)
(* Numbers.  Metric values are fixed-point integers in hundredths          *)
(* (0.13 is 13, 2.0 is 200, absoluteMax 40 is 4000).  The z-score          *)
(* threshold is held the same way (2.5 is 250).  Trust scores and weighted *)
(* penalties are kept in hundredths of a point (65 is 6500), so that the   *)
(* weights 0.40 / 0.35 / 0.25 are the integers 40 / 35 / 25.  Quotients    *)
(* (z-score, multiplier, rate of change) are never formed: every           *)
(* comparison the code makes on them is made by cross-multiplication.      *)
(***************************************************************************)
EXTENDS Integers, Sequences, FiniteSets, TLC

VARIABLES
    initPc,                 \* position of init(): "start", "firstAudit", "polling", "standalone"
    isTableauInitialized,   \* script.js:70
    currentWorksheet,       \* script.js:72  (Some("ws") or Null)
    checkCount,             \* script.js:71
    lastAnalysis,           \* script.js:73
    trustTimeline,          \* script.js:74
    valueHistory,           \* script.js:75
    signalHistory,          \* script.js:76
    demoAnomalyActive,      \* CONFIG.demoAnomalyActive
    demoAnomalyValue,       \* CONFIG.demoAnomalyValue
    zScoreThreshold,        \* CONFIG.zScoreThreshold (a Number in hundredths, or NaN)
    heroMetricField,        \* CONFIG.heroMetricField / heroMetricName
    uiState,                \* last state handed to updateUIState
    hostParameter,          \* the host's DecisionTrustState parameter
    audits,                 \* the runAudit calls made so far, each with its position
    microtasks,             \* audits whose analysis settled, continuation of runAudit queued
    callSignals,            \* argument of a direct call of the scorer (ScoreSpec),
                            \* or the signals a direct call of the detectors returned
    callInput,              \* arguments of a direct call of the detectors (DetectSpec)
                            \* or of detectDuplicateRows (DuplicateSpec)
    callResult,             \* what a direct call of detectDuplicateRows returned
    callPc                  \* position of that call: "idle", "call", "returned"

vars == <<initPc, isTableauInitialized, currentWorksheet, checkCount, lastAnalysis,
          trustTimeline, valueHistory, signalHistory, demoAnomalyActive,
          demoAnomalyValue, zScoreThreshold, heroMetricField, uiState,
          hostParameter, audits, microtasks, callSignals, callInput, callResult, callPc>>

\* no direct call of the detectors is made
NoInput == [allValues |-> <<>>, latestValue |-> 0]

\* A nullable value is a sequence of at most one element.
Null == <<>>
Some(x) == <<x>>

(***************************************************************************)
(* Bounds of the model                                                     *)
(***************************************************************************)
MaxAudits == 3        \* runAudit calls explored in one behaviour
MaxInFlight == 2      \* runAudit calls pending at once
MaxSignals == 3       \* length of a signal list handed directly to the scorer
MaxCount == 1         \* largest count in a directly supplied signalHistory
MaxPopulation == 3    \* length of a population handed directly to the detectors
MaxRows == 3          \* rows of a table handed directly to detectDuplicateRows

(***************************************************************************)
(* CONFIG (script.js:15-61)                                                *)
(***************************************************************************)
InitialDemoValue == 240000
absoluteMin == -1000
absoluteMax == 4000
rocThreshold == 15
inflationMin == 108
inflationMax == 115
persistenceRequired == 2
persistenceWindow == 3
WeightSTATISTICAL == 40
WeightBUSINESS == 35
WeightTEMPORAL == 25
trustScoreWarning == 9000
trustScoreLock == 6500
PersistencePenalty == 1500
CategoryCap == 100
FullTrust == 10000
ValueHistoryCap == 10
TimelineCap == 5
zScoreThresholdMin == 150
zScoreThresholdMax == 500

Max(a, b) == IF a >= b THEN a ELSE b
Min(a, b) == IF a <= b THEN a ELSE b
Abs(a) == IF a >= 0 THEN a ELSE -a

(***************************************************************************)
(* DETECTOR_REGISTRY (script.js:81-95).  DUPLICATE_ROWS has no entry.      *)
(***************************************************************************)
RegisteredTypes ==
    {"Z_SCORE", "HIGH_ZSCORE", "BUSINESS_RULE", "NEGATIVE_VALUE", "DECIMAL_SHIFT",
     "RATE_OF_CHANGE", "DUPLICATE_INFLATION", "CURRENCY_FLIP"}

SignalTypes == RegisteredTypes \cup {"DUPLICATE_ROWS"}

Severities == {"CRITICAL", "HIGH", "MEDIUM", "LOW"}

Categories == {"STATISTICAL", "BUSINESS", "TEMPORAL"}

DETECTOR_REGISTRY ==
    [t \in RegisteredTypes |->
        CASE t = "Z_SCORE"             -> [category |-> "STATISTICAL", basePenalty |-> 80,  criticalPenalty |-> 100]
          [] t = "HIGH_ZSCORE"         -> [category |-> "STATISTICAL", basePenalty |-> 40,  criticalPenalty |-> 60]
          [] t = "BUSINESS_RULE"       -> [category |-> "BUSINESS",    basePenalty |-> 90,  criticalPenalty |-> 100]
          [] t = "NEGATIVE_VALUE"      -> [category |-> "BUSINESS",    basePenalty |-> 100, criticalPenalty |-> 100]
          [] t = "DECIMAL_SHIFT"       -> [category |-> "BUSINESS",    basePenalty |-> 100, criticalPenalty |-> 100]
          [] t = "RATE_OF_CHANGE"      -> [category |-> "TEMPORAL",    basePenalty |-> 60,  criticalPenalty |-> 80]
          [] t = "DUPLICATE_INFLATION" -> [category |-> "TEMPORAL",    basePenalty |-> 50,  criticalPenalty |-> 70]
          [] t = "CURRENCY_FLIP"       -> [category |-> "TEMPORAL",    basePenalty |-> 50,  criticalPenalty |-> 70]]

\* script.js:447-457, one pass of the loop body for one signal and one category
SignalPenalty(signal, category) ==
    IF signal.type \notin RegisteredTypes THEN 0
    ELSE LET detector == DETECTOR_REGISTRY[signal.type]
             penalty == IF signal.severity = "CRITICAL"
                        THEN detector.criticalPenalty
                        ELSE detector.basePenalty
         IN IF detector.category = category THEN penalty ELSE 0

\* script.js:441-457, the accumulated categoryPenalties[category]
RECURSIVE categoryPenalties(_, _)
categoryPenalties(signals, category) ==
    IF signals = <<>> THEN 0
    ELSE SignalPenalty(Head(signals), category) + categoryPenalties(Tail(signals), category)

\* variant: the STATISTICAL and BUSINESS weights are exchanged
weightedPenaltySwapped(signals) ==
    Min(categoryPenalties(signals, "STATISTICAL"), CategoryCap) * WeightBUSINESS
  + Min(categoryPenalties(signals, "BUSINESS"), CategoryCap) * WeightSTATISTICAL
  + Min(categoryPenalties(signals, "TEMPORAL"), CategoryCap) * WeightTEMPORAL

\* variant: the penalty of a category is not capped at 100
weightedPenaltyUncapped(signals) ==
    categoryPenalties(signals, "STATISTICAL") * WeightSTATISTICAL
  + categoryPenalties(signals, "BUSINESS") * WeightBUSINESS
  + categoryPenalties(signals, "TEMPORAL") * WeightTEMPORAL

\* script.js:460-464 (hundredths of a point)
weightedPenalty(signals) ==
    Min(categoryPenalties(signals, "STATISTICAL"), CategoryCap) * WeightSTATISTICAL
  + Min(categoryPenalties(signals, "BUSINESS"), CategoryCap) * WeightBUSINESS
  + Min(categoryPenalties(signals, "TEMPORAL"), CategoryCap) * WeightTEMPORAL

\* variant: the score is clamped at the lock threshold instead of at zero
baseTrustScoreFlooredAtLock(signals) ==
    Max(trustScoreLock, Min(FullTrust, FullTrust - weightedPenalty(signals)))

\* script.js:466
baseTrustScore(signals) == Max(0, Min(FullTrust, FullTrust - weightedPenalty(signals)))

\* script.js:525-530; history is the signalHistory at the time of the call
RECURSIVE CountPositive(_)
CountPositive(s) ==
    IF s = <<>> THEN 0
    ELSE (IF Head(s) > 0 THEN 1 ELSE 0) + CountPositive(Tail(s))

LastN(s, n) == IF Len(s) <= n THEN s ELSE SubSeq(s, Len(s) - n + 1, Len(s))

\* variant: one signal-bearing evaluation in the window is enough
checkPersistenceOnce(history) ==
    IF Len(history) < persistenceWindow THEN FALSE
    ELSE CountPositive(LastN(history, persistenceWindow)) >= 1

\* variant: the check does not wait for a full window
checkPersistenceAnyLength(history) ==
    CountPositive(LastN(history, persistenceWindow)) >= persistenceRequired

checkPersistence(history) ==
    IF Len(history) < persistenceWindow THEN FALSE
    ELSE CountPositive(LastN(history, persistenceWindow)) >= persistenceRequired

(***************************************************************************)
(* generateFingerprint (script.js:532-566)                                 *)
(***************************************************************************)
\* variant: the last signal of the severity is taken
RECURSIVE FindLast(_, _)
FindLast(signals, severity) ==
    IF signals = <<>> THEN Null
    ELSE IF FindLast(Tail(signals), severity) # Null
         THEN FindLast(Tail(signals), severity)
    ELSE IF Head(signals).severity = severity THEN Some(Head(signals))
    ELSE Null

\* Array.prototype.find on the severity (script.js:533-534)
RECURSIVE Find(_, _)
Find(signals, severity) ==
    IF signals = <<>> THEN Null
    ELSE IF Head(signals).severity = severity THEN Some(Head(signals))
    ELSE Find(Tail(signals), severity)

RECURSIVE CountWhere(_, _, _)
CountWhere(signals, field, v) ==
    IF signals = <<>> THEN 0
    ELSE (IF Head(signals)[field] = v THEN 1 ELSE 0) + CountWhere(Tail(signals), field, v)

\* script.js:567-580
getRootCause(signalType) ==
    CASE signalType = "Z_SCORE" -> "Statistical outlier - investigate data source"
      [] signalType = "HIGH_ZSCORE" -> "Value approaching anomaly threshold"
      [] signalType = "BUSINESS_RULE" -> "Value outside business-valid range"
      [] signalType = "RATE_OF_CHANGE" -> "Sudden change - check recent data loads"
      [] signalType = "DUPLICATE_INFLATION" -> "Possible duplicate rows from JOIN issues"
      [] signalType = "CURRENCY_FLIP" -> "Possible currency conversion error"
      [] signalType = "DECIMAL_SHIFT" -> "Check ETL unit/decimal conversions"
      [] signalType = "NEGATIVE_VALUE" -> "Unexpected negative - check calculation logic"
      [] signalType = "DUPLICATE_ROWS" -> "Actual duplicate rows detected in data"
      [] OTHER -> "Manual investigation required"

\* script.js:582-595 (the leading icon of each text is left out)
getRecommendedAction(signalType) ==
    CASE signalType = "Z_SCORE" -> "Query raw data, compare to historical baseline"
      [] signalType = "HIGH_ZSCORE" -> "Monitor closely, consider lowering threshold"
      [] signalType = "BUSINESS_RULE" -> "Verify data source, check filter conditions"
      [] signalType = "RATE_OF_CHANGE" -> "Check recent ETL jobs, verify data refresh timestamp"
      [] signalType = "DUPLICATE_INFLATION" -> "Audit JOIN conditions, check for fanout"
      [] signalType = "CURRENCY_FLIP" -> "Verify currency field mapping in ETL"
      [] signalType = "DECIMAL_SHIFT" -> "Check number format and unit conversions"
      [] signalType = "NEGATIVE_VALUE" -> "Review calculation logic, check for sign flips"
      [] signalType = "DUPLICATE_ROWS" -> "Run SELECT DISTINCT, check primary keys"
      [] OTHER -> "Investigate manually"

generateFingerprint(signals) ==
    LET critical == Find(signals, "CRITICAL")
        high == Find(signals, "HIGH")
        primary == IF critical # Null THEN critical[1]
                   ELSE IF high # Null THEN high[1]
                   ELSE signals[1]
    IN [pattern |-> primary.type,
        description |-> primary.message,
        category |-> primary.category,
        rootCause |-> getRootCause(primary.type),
        recommendedAction |-> getRecommendedAction(primary.type),
        votingSummary |->
            [total |-> Len(signals),
             critical |-> CountWhere(signals, "severity", "CRITICAL"),
             high |-> CountWhere(signals, "severity", "HIGH"),
             medium |-> CountWhere(signals, "severity", "MEDIUM"),
             low |-> CountWhere(signals, "severity", "LOW")]]

(***************************************************************************)
(* calculateEnsembleTrustScore (script.js:434-523).  history is the        *)
(* signalHistory that checkPersistence reads during the call.  The fields  *)
(* of the result that only feed the display (message, zScore, mean,        *)
(* categoryBreakdown, propagation) are not kept.                           *)
(***************************************************************************)
\* variant: the lock boundary is inclusive
VerdictInclusive(trustScore) ==
    IF trustScore <= trustScoreLock THEN [status |-> "LOCKED", isSafe |-> FALSE]
    ELSE IF trustScore < trustScoreWarning THEN [status |-> "WARNING", isSafe |-> TRUE]
    ELSE [status |-> "SAFE", isSafe |-> TRUE]

\* script.js:474-487
Verdict(trustScore) ==
    IF trustScore < trustScoreLock THEN [status |-> "LOCKED", isSafe |-> FALSE]
    ELSE IF trustScore < trustScoreWarning THEN [status |-> "WARNING", isSafe |-> TRUE]
    ELSE [status |-> "SAFE", isSafe |-> TRUE]

\* variant: the penalty is subtracted without the clamp at zero
PersistenceAdjustedNoFloor(trustScore, persistentAnomaly, signals) ==
    IF persistentAnomaly /\ Len(signals) > 0
    THEN trustScore - PersistencePenalty
    ELSE trustScore

\* variant: the penalty does not ask whether a signal fired
PersistenceAdjustedAlways(trustScore, persistentAnomaly, signals) ==
    IF persistentAnomaly
    THEN Max(0, trustScore - PersistencePenalty)
    ELSE trustScore

\* variant: the penalty does not ask for persistence
PersistenceAdjustedAnySignal(trustScore, persistentAnomaly, signals) ==
    IF Len(signals) > 0
    THEN Max(0, trustScore - PersistencePenalty)
    ELSE trustScore

\* script.js:470-472
PersistenceAdjusted(trustScore, persistentAnomaly, signals) ==
    IF persistentAnomaly /\ Len(signals) > 0
    THEN Max(0, trustScore - PersistencePenalty)
    ELSE trustScore

calculateEnsembleTrustScore(latestValue, signals, duplicateInfo, history) ==
    LET persistentAnomaly == checkPersistence(history)
        trustScore == PersistenceAdjusted(baseTrustScore(signals), persistentAnomaly, signals)
    IN [status |-> Verdict(trustScore).status,
        isSafe |-> Verdict(trustScore).isSafe,
        latestValue |-> latestValue,
        trustScore |-> trustScore,
        signalsFired |-> Len(signals),
        signalDetails |-> signals,
        duplicateInfo |-> duplicateInfo,
        fingerprint |-> IF Len(signals) > 0 THEN Some(generateFingerprint(signals)) ELSE Null,
        persistentAnomaly |-> persistentAnomaly]


(***************************************************************************)
(* Strings are sequences of one-character strings.                         *)
(***************************************************************************)
UpperCase == <<"A","B","C","D","E","F","G","H","I","J","K","L","M",
               "N","O","P","Q","R","S","T","U","V","W","X","Y","Z">>
LowerCase == <<"a","b","c","d","e","f","g","h","i","j","k","l","m",
               "n","o","p","q","r","s","t","u","v","w","x","y","z">>
Digits == <<"0","1","2","3","4","5","6","7","8","9">>

Range(f) == {f[i] : i \in DOMAIN f}

\* String.prototype.toLowerCase on one character
toLowerCase(c) ==
    IF c \in Range(UpperCase)
    THEN LowerCase[CHOOSE i \in DOMAIN UpperCase : UpperCase[i] = c]
    ELSE c

RECURSIVE Remove(_, _)
\* s.replace(/[set]/g, '')
Remove(s, set) ==
    IF s = <<>> THEN <<>>
    ELSE IF Head(s) \in set THEN Remove(Tail(s), set)
    ELSE <<Head(s)>> \o Remove(Tail(s), set)

\* script.js:608: fieldName.toLowerCase().replace(/[^a-z0-9]/g, '')
CleanName(name) ==
    LET lower == [i \in DOMAIN name |-> toLowerCase(name[i])]
    IN Remove(lower, Range(lower) \ (Range(LowerCase) \cup Range(Digits)))

\* String.prototype.includes
Includes(s, t) ==
    \E i \in 0..(Len(s) - Len(t)) : SubSeq(s, i + 1, i + Len(t)) = t

\* script.js:607-610; 1-based index of the first matching column, -1 if none
findColumnIndex(columns, fieldName) ==
    LET cleanTarget == CleanName(fieldName)
        hits == {i \in DOMAIN columns : Includes(CleanName(columns[i]), cleanTarget)}
    IN IF hits = {} THEN -1 ELSE CHOOSE i \in hits : \A j \in hits : i <= j

\* CONFIG.heroMetricCandidates (script.js:17)
heroMetricCandidates ==
    << <<"P","r","o","f","i","t"," ","R","a","t","i","o">>,
       <<"P","r","o","f","i","t","_","R","a","t","i","o">>,
       <<"G","r","o","s","s","_","M","a","r","g","i","n">>,
       <<"G","r","o","s","s"," ","M","a","r","g","i","n">>,
       <<"M","a","r","g","i","n">> >>

(***************************************************************************)
(* Cells.  A cell is absent (NoCell), or carries a number value, a string  *)
(* value, or only a formattedValue string.                                 *)
(***************************************************************************)
NoCell == [kind |-> "absent", num |-> 0, str |-> <<>>]
Num(v) == [kind |-> "number", num |-> v, str |-> <<>>]
Str(s) == [kind |-> "string", num |-> 0, str |-> s]
Fmt(s) == [kind |-> "formatted", num |-> 0, str |-> s]

NaN == [nan |-> TRUE, v |-> 0]
Number(v) == [nan |-> FALSE, v |-> v]

DigitValue(c) == (CHOOSE i \in DOMAIN Digits : Digits[i] = c) - 1

RECURSIVE DigitPrefix(_)
\* the longest prefix of s made of digits
DigitPrefix(s) ==
    IF s = <<>> \/ Head(s) \notin Range(Digits) THEN <<>>
    ELSE <<Head(s)>> \o DigitPrefix(Tail(s))

RECURSIVE DigitsToInt(_, _)
DigitsToInt(s, acc) ==
    IF s = <<>> THEN acc ELSE DigitsToInt(Tail(s), acc * 10 + DigitValue(Head(s)))

Drop(s, n) == SubSeq(s, n + 1, Len(s))

RECURSIVE TrimLeft(_)
TrimLeft(s) == IF s # <<>> /\ Head(s) = " " THEN TrimLeft(Tail(s)) ELSE s

\* parseFloat, in hundredths: optional blanks, optional sign, digits, optional
\* fraction (digits after the second are dropped); NaN when no digit is found
parseFloat(str) ==
    LET s0 == TrimLeft(str)
        neg == s0 # <<>> /\ Head(s0) = "-"
        s1 == IF s0 # <<>> /\ Head(s0) \in {"-", "+"} THEN Tail(s0) ELSE s0
        int == DigitPrefix(s1)
        s2 == Drop(s1, Len(int))
        frac == IF s2 # <<>> /\ Head(s2) = "." THEN DigitPrefix(Tail(s2)) ELSE <<>>
        f1 == IF Len(frac) >= 1 THEN DigitValue(frac[1]) ELSE 0
        f2 == IF Len(frac) >= 2 THEN DigitValue(frac[2]) ELSE 0
        mag == DigitsToInt(int, 0) * 100 + f1 * 10 + f2
    IN IF int = <<>> /\ frac = <<>> THEN NaN
       ELSE Number(IF neg THEN -mag ELSE mag)

\* script.js:612-618
extractNumericValue(cell) ==
    CASE cell.kind = "absent" -> NaN
      [] cell.kind = "number" -> Number(cell.num)
      [] cell.kind = "string" -> parseFloat(Remove(cell.str, {"%", "$", ","}))
      [] cell.kind = "formatted" -> parseFloat(Remove(cell.str, {"%", "$", ","}))

(***************************************************************************)
(* calculateStatistics (script.js:620-625).  mean is sum / n and the       *)
(* variance is dev / n^2, with dev = n * sumsq - sum^2 >= 0; std is zero   *)
(* exactly when dev is.                                                    *)
(***************************************************************************)
RECURSIVE Sum(_)
Sum(values) == IF values = <<>> THEN 0 ELSE Head(values) + Sum(Tail(values))

RECURSIVE SumSq(_)
SumSq(values) == IF values = <<>> THEN 0 ELSE Head(values) * Head(values) + SumSq(Tail(values))

calculateStatistics(values) ==
    LET n == Len(values)
        sum == Sum(values)
    IN [count |-> n, sum |-> sum, dev |-> n * SumSq(values) - sum * sum]

(***************************************************************************)
(* detectDuplicateRows (script.js:258-283)                                 *)
(***************************************************************************)
RECURSIVE IntToDigits(_)
IntToDigits(n) ==
    IF n < 10 THEN <<Digits[n + 1]>>
    ELSE IntToDigits(n \div 10) \o <<Digits[(n % 10) + 1]>>

\* Number.prototype.toString of a value held in hundredths
NumberToString(v) ==
    LET a == Abs(v)
        f == a % 100
        sign == IF v < 0 THEN <<"-">> ELSE <<>>
        frac == IF f = 0 THEN <<>>
                ELSE IF f % 10 = 0 THEN <<".", Digits[(f \div 10) + 1]>>
                ELSE <<".", Digits[(f \div 10) + 1], Digits[(f % 10) + 1]>>
    IN sign \o IntToDigits(a \div 100) \o frac

\* script.js:266: cell?.value ?? cell?.formattedValue ?? '', as join() renders it
CellText(cell) ==
    CASE cell.kind = "absent" -> <<>>
      [] cell.kind = "number" -> NumberToString(cell.num)
      [] cell.kind = "string" -> cell.str
      [] cell.kind = "formatted" -> cell.str

RECURSIVE Join(_, _)
Join(parts, sep) ==
    IF parts = <<>> THEN <<>>
    ELSE IF Len(parts) = 1 THEN parts[1]
    ELSE parts[1] \o sep \o Join(Tail(parts), sep)

RowHash(row) == Join([i \in DOMAIN row |-> CellText(row[i])], <<"|">>)

RECURSIVE CountDuplicates(_, _)
\* script.js:264-272: the number of rows whose hash was already in rowHashes
CountDuplicates(rows, rowHashes) ==
    IF rows = <<>> THEN 0
    ELSE LET hash == RowHash(Head(rows))
         IN IF hash \in rowHashes
            THEN 1 + CountDuplicates(Tail(rows), rowHashes)
            ELSE CountDuplicates(Tail(rows), rowHashes \cup {hash})

\* duplicateRatio is kept as the pair <<duplicates, rows>>
detectDuplicateRows(rows) ==
    IF Len(rows) < 2
    THEN [hasDuplicates |-> FALSE, duplicateCount |-> 0, duplicateRatio |-> <<0, 1>>]
    ELSE LET duplicates == CountDuplicates(rows, {})
         IN [hasDuplicates |-> duplicates > 0,
             duplicateCount |-> duplicates,
             duplicateRatio |-> <<duplicates, Len(rows)>>,
             totalRows |-> Len(rows),
             uniqueRows |-> Len(rows) - duplicates]

(***************************************************************************)
(* runAllDetectors (script.js:288-429).                                    *)
(*   zScore = |latest - mean| / (std || 1)                                 *)
(*          = |n*latest - sum| / (100 n)      when dev = 0                 *)
(*          = |n*latest - sum| / sqrt(dev)    otherwise                    *)
(*   multiplier = latest / mean = n*latest / sum  (IEEE: x/0 is +-Infinity,*)
(*   0/0 is NaN, and every comparison with NaN is false)                   *)
(***************************************************************************)
RECURSIVE GCD(_, _)
GCD(a, b) == IF b = 0 THEN a ELSE GCD(b, a % b)

\* variant: the rate of change is divided by previous, not by its magnitude
RocGTSignedDenominator(latestValue, previousValue, a) ==
    /\ previousValue > 0
    /\ Abs(latestValue - previousValue) * 100 > a * previousValue

\* variant: a zero std is divided by (x / 0 is Infinity, 0 / 0 is NaN)
ZScoreGTDividingByZero(latestValue, stats, a, b) ==
    LET num == Abs(stats.count * latestValue - stats.sum)
        p == a \div GCD(a, b)
        q == b \div GCD(a, b)
    IN IF stats.dev = 0
       THEN num > 0
       ELSE num * num * q * q > p * p * stats.dev

\* variant: the denominator is max(std, 1)
ZScoreGTMaxOfStdAndOne(latestValue, stats, a, b) ==
    LET num == Abs(stats.count * latestValue - stats.sum)
        p == a \div GCD(a, b)
        q == b \div GCD(a, b)
    IN IF stats.dev < 10000 * stats.count * stats.count
       THEN num * q > p * 100 * stats.count
       ELSE num * num * q * q > p * p * stats.dev

\* zScore > a / b, for naturals a and b > 0 (a / b is reduced first, to keep
\* the products small)
ZScoreGT(latestValue, stats, a, b) ==
    LET num == Abs(stats.count * latestValue - stats.sum)
        p == a \div GCD(a, b)
        q == b \div GCD(a, b)
    IN IF stats.dev = 0
       THEN num * q > p * 100 * stats.count
       ELSE num * num * q * q > p * p * stats.dev

\* multiplier > a / b
MultiplierGT(latestValue, stats, a, b) ==
    IF stats.sum > 0 THEN latestValue * stats.count * b > a * stats.sum
    ELSE IF stats.sum < 0 THEN latestValue * stats.count * b < a * stats.sum
    ELSE latestValue > 0

\* multiplier >= a / b
MultiplierGE(latestValue, stats, a, b) ==
    IF stats.sum > 0 THEN latestValue * stats.count * b >= a * stats.sum
    ELSE IF stats.sum < 0 THEN latestValue * stats.count * b <= a * stats.sum
    ELSE latestValue > 0

\* multiplier <= a / b
MultiplierLE(latestValue, stats, a, b) ==
    IF stats.sum > 0 THEN latestValue * stats.count * b <= a * stats.sum
    ELSE IF stats.sum < 0 THEN latestValue * stats.count * b >= a * stats.sum
    ELSE latestValue < 0

\* roc > a / 100, with roc = |(latest - previous) / previous| and previous # 0
RocGT(latestValue, previousValue, a) ==
    Abs(latestValue - previousValue) * 100 > a * Abs(previousValue)

\* duplicateRatio > a / 100
RatioGT(duplicateInfo, a) ==
    duplicateInfo.duplicateRatio[1] * 100 > a * duplicateInfo.duplicateRatio[2]

\* the category each detector writes into its signal (script.js:302-420)
CategoryOfType(t) ==
    CASE t \in {"Z_SCORE", "HIGH_ZSCORE"} -> "STATISTICAL"
      [] t \in {"BUSINESS_RULE", "DECIMAL_SHIFT", "NEGATIVE_VALUE"} -> "BUSINESS"
      [] OTHER -> "TEMPORAL"

\* the message each detector writes into its signal (script.js:305-423),
\* with _ for the numbers it interpolates; BUSINESS_RULE is the message of
\* the check against absoluteMin
MessageOf(t) ==
    CASE t = "Z_SCORE" -> "Z-Score _ exceeds threshold _"
      [] t = "HIGH_ZSCORE" -> "Z-Score _ approaching threshold"
      [] t = "BUSINESS_RULE" -> "Value _% below minimum _%"
      [] t = "DECIMAL_SHIFT" -> "Value is _x baseline (decimal/unit error)"
      [] t = "NEGATIVE_VALUE" -> "Negative value detected: _%"
      [] t = "RATE_OF_CHANGE" -> "_% change from previous"
      [] t = "DUPLICATE_INFLATION" -> "Value _% above mean (possible duplication)"
      [] t = "CURRENCY_FLIP" -> "Value _% above mean (currency error?)"
      [] t = "DUPLICATE_ROWS" -> "_ duplicate rows (_%)"

\* script.js:343-344: the message of the check against absoluteMax
ExceedsMaximum == "Value _% exceeds maximum _%"

\* a signal; value and icon only feed the display
SignalSaying(t, sev, message) ==
    [type |-> t, category |-> CategoryOfType(t), severity |-> sev, message |-> message]

Signal(t, sev) == SignalSaying(t, sev, MessageOf(t))

\* script.js:63-65
getActiveThreshold == zScoreThreshold

When(cond, signal) == IF cond THEN <<signal>> ELSE <<>>

runAllDetectors(latestValue, previousValue, stats, allValues, duplicateInfo) ==
    LET threshold == getActiveThreshold
        \* Signal 1: zScore > threshold, CRITICAL when zScore > threshold * 1.5
        zAnomaly == ~threshold.nan /\ ZScoreGT(latestValue, stats, threshold.v, 100)
        zCritical == ZScoreGT(latestValue, stats, threshold.v * 15, 1000)
        \* Signal 2: zScore > threshold * 0.7 && zScore <= threshold
        zWarning == /\ ~threshold.nan
                    /\ ZScoreGT(latestValue, stats, threshold.v * 7, 1000)
                    /\ ~ZScoreGT(latestValue, stats, threshold.v, 100)
    IN  When(zAnomaly,
             Signal("Z_SCORE", IF zCritical THEN "CRITICAL" ELSE "HIGH"))
     \o When(zWarning, Signal("HIGH_ZSCORE", "LOW"))
     \o When(latestValue < absoluteMin, Signal("BUSINESS_RULE", "CRITICAL"))
     \o When(latestValue > absoluteMax,
             SignalSaying("BUSINESS_RULE", "CRITICAL", ExceedsMaximum))
     \o When(MultiplierGT(latestValue, stats, 50, 1), Signal("DECIMAL_SHIFT", "CRITICAL"))
     \o When(latestValue < 0, Signal("NEGATIVE_VALUE", "CRITICAL"))
     \o When(previousValue # 0 /\ RocGT(latestValue, previousValue, rocThreshold),
             Signal("RATE_OF_CHANGE",
                    IF RocGT(latestValue, previousValue, 30) THEN "CRITICAL" ELSE "HIGH"))
     \o When(MultiplierGE(latestValue, stats, inflationMin, 100)
               /\ MultiplierLE(latestValue, stats, inflationMax, 100),
             Signal("DUPLICATE_INFLATION", "MEDIUM"))
     \o When(MultiplierGT(latestValue, stats, 115, 100)
               /\ MultiplierLE(latestValue, stats, 125, 100),
             Signal("CURRENCY_FLIP", "MEDIUM"))
     \o When(duplicateInfo.hasDuplicates /\ RatioGT(duplicateInfo, 1),
             Signal("DUPLICATE_ROWS",
                    IF RatioGT(duplicateInfo, 5) THEN "CRITICAL" ELSE "MEDIUM"))

(***************************************************************************)
(* Worksheet data the host can return to getSummaryData*Async.             *)
(***************************************************************************)
RegionField == <<"R","e","g","i","o","n">>
SalesField == <<"S","a","l","e","s">>
ProfitRatioField == <<"P","r","o","f","i","t"," ","R","a","t","i","o">>

\* 0.10, 0.14, 0.12 (the last as a string value): mean 0.12, no signal
CleanTable ==
    [columns |-> <<RegionField, ProfitRatioField>>,
     data |-> << <<Str(<<"N">>), Num(10)>>,
                 <<Str(<<"S">>), Num(14)>>,
                 <<Str(<<"E">>), Str(<<"0",".","1","2">>)>> >>]

\* every value -0.05: NEGATIVE_VALUE alone
NegativeTable ==
    [columns |-> <<RegionField, ProfitRatioField>>,
     data |-> << <<Str(<<"N">>), Num(-5)>>,
                 <<Str(<<"S">>), Num(-5)>> >>]

\* the clean values with the last row repeated: DUPLICATE_ROWS alone
DuplicateTable ==
    [columns |-> <<RegionField, ProfitRatioField>>,
     data |-> << <<Str(<<"N">>), Num(10)>>,
                 <<Str(<<"S">>), Num(14)>>,
                 <<Str(<<"E">>), Num(12)>>,
                 <<Str(<<"E">>), Num(12)>> >>]

\* no column matches a candidate name
NoMetricTable ==
    [columns |-> <<RegionField, SalesField>>,
     data |-> << <<Str(<<"N">>), Num(10)>>,
                 <<Str(<<"S">>), Num(14)>> >>]

\* the metric column holds nothing parseFloat accepts
NoNumbersTable ==
    [columns |-> <<RegionField, ProfitRatioField>>,
     data |-> << <<Str(<<"N">>), NoCell>>,
                 <<Str(<<"S">>), Fmt(<<"N","/","A">>)>> >>]

Tables == <<CleanTable, NegativeTable, DuplicateTable, NoMetricTable, NoNumbersTable>>

\* the argument strings of updateThreshold: "1.5" and "5"
SliderValues == { <<"1",".","5">>, <<"5">> }

(***************************************************************************)
(* analyzeWorksheetData (script.js:178-253), the part after the awaits.    *)
(* What depends on the table alone is evaluated once per table.            *)
(***************************************************************************)
\* script.js:194-205: the first candidate that names a column, or 0
DetectedCandidate(columns) ==
    LET hits == {k \in DOMAIN heroMetricCandidates :
                    findColumnIndex(columns, heroMetricCandidates[k]) # -1}
    IN IF hits = {} THEN 0 ELSE CHOOSE k \in hits : \A j \in hits : k <= j

RECURSIVE NumericValues(_, _)
\* script.js:216-220
NumericValues(rows, metricColIndex) ==
    IF rows = <<>> THEN <<>>
    ELSE LET val == extractNumericValue(Head(rows)[metricColIndex])
         IN (IF val.nan THEN <<>> ELSE <<val.v>>) \o NumericValues(Tail(rows), metricColIndex)

\* script.js:216-229: the population of a column, its statistics, the duplicates
Population(table, metricColIndex) ==
    LET values == NumericValues(table.data, metricColIndex)
    IN [values |-> values,
        stats |-> calculateStatistics(values),
        duplicateInfo |-> detectDuplicateRows(table.data)]

DetectedCandidateOf == [i \in DOMAIN Tables |-> DetectedCandidate(Tables[i].columns)]

PopulationOf ==
    [i \in DOMAIN Tables |->
        IF DetectedCandidateOf[i] = 0 THEN Population(Tables[i], 1)
        ELSE Population(Tables[i],
                        findColumnIndex(Tables[i].columns,
                                        heroMetricCandidates[DetectedCandidateOf[i]]))]

\* script.js:207-210: the fallback to CONFIG.heroMetricField
FallbackIndex(i) == findColumnIndex(Tables[i].columns, heroMetricField)

\* the population analyzeWorksheetData reads from table i
Read(i) ==
    IF DetectedCandidateOf[i] # 0 THEN PopulationOf[i]
    ELSE Population(Tables[i], FallbackIndex(i))

\* variant: a full history refuses the new entry
PushCappedKeepingOldest(history, x, cap) ==
    IF Len(history) >= cap THEN history ELSE Append(history, x)

\* push, then shift when over capacity (script.js:238-239, 246-247)
PushCapped(history, x, cap) ==
    LET pushed == Append(history, x)
    IN IF Len(pushed) > cap THEN Tail(pushed) ELSE pushed

\* script.js:212-222: the Error thrown for the population read, or Null
AnalysisError(i, read) ==
    IF DetectedCandidateOf[i] = 0 /\ FallbackIndex(i) = -1 THEN Some("MetricNotFound")
    ELSE IF read.values = <<>> THEN Some("NoNumericData")
    ELSE Null

\* variant: the previous value is the reading before the last one
PreviousValueBeforeLast(values) ==
    IF Len(values) > 1 THEN values[Len(values) - 1] ELSE values[1]

\* script.js:226
PreviousValue(values) == values[Len(values)]

\* script.js:231-236
LatestValue(values) ==
    IF demoAnomalyActive THEN demoAnomalyValue ELSE values[Len(values)]

\* script.js:244
SignalsOf(read, latestValue) ==
    runAllDetectors(latestValue, PreviousValue(read.values),
                    read.stats, read.values, read.duplicateInfo)

(***************************************************************************)
(* The audit loop                                                          *)
(***************************************************************************)
InFlight == Cardinality({a \in DOMAIN audits : audits[a].pc # "done"})

\* one call of runAudit: its caller, its position ("fetching", "settled",
\* "writing", "done"), how its analysis ended ("pending", "result", "error")
\* and the result it holds; a call that has returned keeps nothing
Audit(caller, pc, outcome, result) ==
    [caller |-> caller, pc |-> pc, outcome |-> outcome, result |-> result]

Finished == Audit("", "done", "", Null)

\* runAudit up to its first await (script.js:139-150).  Its callers are
\* tasks (a timer, an event, a click), and so are the host's answers to the
\* fetch and to the parameter write: a task starts only once the
\* continuations queued by the task before it have run.
runAudit(caller, initialized, worksheet) ==
    /\ microtasks = <<>>
    /\ Len(audits) < MaxAudits
    /\ InFlight < MaxInFlight
    /\ IF initialized /\ worksheet # Null
       THEN /\ audits' = Append(audits, Audit(caller, "fetching", "pending", Null))
            /\ uiState' = "loading"
       ELSE /\ audits' = Append(audits, Finished)
            /\ uiState' = "standalone"

\* init: tableau is undefined, or initializeAsync rejects (script.js:103-106, 130-133)
InitStandalone ==
    /\ initPc = "start"
    /\ initPc' = "standalone"
    /\ uiState' = "standalone"
    /\ UNCHANGED <<isTableauInitialized, currentWorksheet, checkCount, lastAnalysis,
                   trustTimeline, valueHistory, signalHistory, demoAnomalyActive,
                   demoAnomalyValue, zScoreThreshold, heroMetricField, hostParameter,
                   audits, microtasks, callSignals, callInput, callResult, callPc>>

\* init: initializeAsync resolves; the first audit starts (script.js:109-127)
InitTableau ==
    /\ initPc = "start"
    /\ \E worksheet \in {Null, Some("ws")} :
          /\ isTableauInitialized' = TRUE
          /\ currentWorksheet' = worksheet
          /\ runAudit("init", TRUE, worksheet)
    /\ initPc' = "firstAudit"
    /\ UNCHANGED <<checkCount, lastAnalysis, trustTimeline, valueHistory, signalHistory,
                   demoAnomalyActive, demoAnomalyValue, zScoreThreshold, heroMetricField,
                   hostParameter, microtasks, callSignals, callInput, callResult, callPc>>

\* init: the first audit has returned, setInterval is armed (script.js:127-128)
StartPolling ==
    /\ initPc = "firstAudit"
    /\ \A a \in DOMAIN audits : audits[a].caller # "init"
    /\ initPc' = "polling"
    /\ UNCHANGED <<isTableauInitialized, currentWorksheet, checkCount, lastAnalysis,
                   trustTimeline, valueHistory, signalHistory, demoAnomalyActive,
                   demoAnomalyValue, zScoreThreshold, heroMetricField, uiState,
                   hostParameter, audits, microtasks, callSignals, callInput, callResult, callPc>>

\* variant: the timer is not served while the display shows an error
TimerTickUnlessError ==
    /\ initPc = "polling"
    /\ uiState # "error"
    /\ runAudit("timer", isTableauInitialized, currentWorksheet)
    /\ UNCHANGED <<initPc, isTableauInitialized, currentWorksheet, checkCount,
                   lastAnalysis, trustTimeline, valueHistory, signalHistory,
                   demoAnomalyActive, demoAnomalyValue, zScoreThreshold,
                   heroMetricField, hostParameter, microtasks, callSignals, callInput, callResult, callPc>>

\* setInterval(runAudit, pollInterval) fires (script.js:128)
TimerTick ==
    /\ initPc = "polling"
    /\ runAudit("timer", isTableauInitialized, currentWorksheet)
    /\ UNCHANGED <<initPc, isTableauInitialized, currentWorksheet, checkCount,
                   lastAnalysis, trustTimeline, valueHistory, signalHistory,
                   demoAnomalyActive, demoAnomalyValue, zScoreThreshold,
                   heroMetricField, hostParameter, microtasks, callSignals, callInput, callResult, callPc>>

\* the FilterChanged listener fires (script.js:119-124)
FilterChanged ==
    /\ isTableauInitialized
    /\ currentWorksheet # Null
    /\ runAudit("filter", isTableauInitialized, currentWorksheet)
    /\ UNCHANGED <<initPc, isTableauInitialized, currentWorksheet, checkCount,
                   lastAnalysis, trustTimeline, valueHistory, signalHistory,
                   demoAnomalyActive, demoAnomalyValue, zScoreThreshold,
                   heroMetricField, hostParameter, microtasks, callSignals, callInput, callResult, callPc>>

\* script.js:788-807
inject(caller, value) ==
    /\ demoAnomalyActive' = TRUE
    /\ demoAnomalyValue' = value
    /\ runAudit(caller, isTableauInitialized, currentWorksheet)
    /\ UNCHANGED <<initPc, isTableauInitialized, currentWorksheet, checkCount,
                   lastAnalysis, trustTimeline, valueHistory, signalHistory,
                   zScoreThreshold, heroMetricField, hostParameter, microtasks,
                   callSignals, callInput, callResult, callPc>>

injectExtreme == inject("injectExtreme", 200)
injectModerate == inject("injectModerate", 18)
injectSubtle == inject("injectSubtle", 14)
injectDuplicate == inject("injectDuplicate", 13)

\* variant: the demo override survives the reset
resetNormalKeepingDemo ==
    /\ signalHistory' = <<>>
    /\ runAudit("resetNormal", isTableauInitialized, currentWorksheet)
    /\ UNCHANGED <<initPc, isTableauInitialized, currentWorksheet, checkCount,
                   lastAnalysis, trustTimeline, valueHistory, demoAnomalyActive,
                   demoAnomalyValue, zScoreThreshold, heroMetricField, hostParameter,
                   microtasks, callSignals, callInput, callResult, callPc>>

\* script.js:808-812
resetNormal ==
    /\ demoAnomalyActive' = FALSE
    /\ signalHistory' = <<>>
    /\ runAudit("resetNormal", isTableauInitialized, currentWorksheet)
    /\ UNCHANGED <<initPc, isTableauInitialized, currentWorksheet, checkCount,
                   lastAnalysis, trustTimeline, valueHistory, demoAnomalyValue,
                   zScoreThreshold, heroMetricField, hostParameter, microtasks,
                   callSignals, callInput, callResult, callPc>>

\* script.js:813-817
updateThreshold(val) ==
    /\ zScoreThreshold' = parseFloat(val)
    /\ runAudit("updateThreshold", isTableauInitialized, currentWorksheet)
    /\ UNCHANGED <<initPc, isTableauInitialized, currentWorksheet, checkCount,
                   lastAnalysis, trustTimeline, valueHistory, signalHistory,
                   demoAnomalyActive, demoAnomalyValue, heroMetricField,
                   hostParameter, microtasks, callSignals, callInput, callResult, callPc>>

SetAudit(a, pc, outcome, result) ==
    [audits EXCEPT ![a] = Audit(audits[a].caller, pc, outcome, result)]

\* analyzeWorksheetData: a fetch await rejects (script.js:182-188)
FetchFails(a) ==
    /\ microtasks = <<>>
    /\ audits[a].pc = "fetching"
    /\ audits' = SetAudit(a, "settled", "error", Null)
    /\ microtasks' = Append(microtasks, a)
    /\ UNCHANGED <<initPc, isTableauInitialized, currentWorksheet, checkCount,
                   lastAnalysis, trustTimeline, valueHistory, signalHistory,
                   demoAnomalyActive, demoAnomalyValue, zScoreThreshold,
                   heroMetricField, uiState, hostParameter, callSignals, callInput, callResult, callPc>>

\* script.js:238-252: the histories are pushed, the score is computed
Scored(a, latestValue, signals, duplicateInfo, pushed) ==
    /\ valueHistory' = PushCapped(valueHistory, latestValue, ValueHistoryCap)
    /\ signalHistory' = pushed
    /\ audits' = SetAudit(a, "settled", "result",
                          Some(calculateEnsembleTrustScore(latestValue, signals,
                                                           duplicateInfo, pushed)))

\* variant: a reading without signals starts the signal history afresh
DetectedClearing(a, read, latestValue, signals) ==
    Scored(a, latestValue, signals, read.duplicateInfo,
           IF Len(signals) = 0 THEN <<0>>
           ELSE PushCapped(signalHistory, Len(signals), persistenceWindow))

\* script.js:224-252
Detected(a, read, latestValue, signals) ==
    Scored(a, latestValue, signals, read.duplicateInfo,
           PushCapped(signalHistory, Len(signals), persistenceWindow))

\* variant: the signal history is pushed before the population is validated
AnalyzedPushingFirst(a, i, read) ==
    IF AnalysisError(i, read) # Null
    THEN /\ audits' = SetAudit(a, "settled", "error", Null)
         /\ signalHistory' = PushCapped(signalHistory, 0, persistenceWindow)
         /\ UNCHANGED valueHistory
    ELSE Detected(a, read, LatestValue(read.values),
                  SignalsOf(read, LatestValue(read.values)))

\* variant: the previous value is the last one valueHistory holds
AnalyzedAgainstHistory(a, i, read) ==
    IF AnalysisError(i, read) # Null
    THEN /\ audits' = SetAudit(a, "settled", "error", Null)
         /\ UNCHANGED <<valueHistory, signalHistory>>
    ELSE Detected(a, read, LatestValue(read.values),
                  runAllDetectors(LatestValue(read.values),
                                  IF valueHistory # <<>>
                                  THEN valueHistory[Len(valueHistory)]
                                  ELSE PreviousValue(read.values),
                                  read.stats, read.values, read.duplicateInfo))

\* script.js:212-252
Analyzed(a, i, read) ==
    IF AnalysisError(i, read) # Null
    THEN /\ audits' = SetAudit(a, "settled", "error", Null)
         /\ UNCHANGED <<valueHistory, signalHistory>>
    ELSE Detected(a, read, LatestValue(read.values),
                  SignalsOf(read, LatestValue(read.values)))

\* analyzeWorksheetData: table i arrives and the synchronous rest of the
\* function runs (script.js:190-253)
Analyze(a, i) ==
    /\ microtasks = <<>>
    /\ audits[a].pc = "fetching"
    /\ heroMetricField' = IF DetectedCandidateOf[i] # 0
                          THEN heroMetricCandidates[DetectedCandidateOf[i]]
                          ELSE heroMetricField
    /\ Analyzed(a, i, Read(i))
    /\ microtasks' = Append(microtasks, a)
    /\ UNCHANGED <<initPc, isTableauInitialized, currentWorksheet, checkCount,
                   lastAnalysis, trustTimeline, demoAnomalyActive, demoAnomalyValue,
                   zScoreThreshold, uiState, hostParameter, callSignals, callInput, callResult, callPc>>

\* String.prototype.toLowerCase on a status (script.js:166)
StatusLower(status) ==
    CASE status = "SAFE" -> "safe"
      [] status = "WARNING" -> "warning"
      [] status = "LOCKED" -> "locked"

\* script.js:155-163; the timestamp and the reason text are not kept
TimelineEntry(result) ==
    [metric |-> heroMetricField,
     trustScore |-> result.trustScore,
     status |-> result.status,
     signals |-> result.signalsFired]

\* variant: a full timeline drops the entry it was just given
UnshiftDroppingNewest(timeline, entry) ==
    LET grown == <<entry>> \o timeline
    IN IF Len(grown) > TimelineCap THEN Tail(grown) ELSE grown

\* script.js:155-163: unshift, then pop when over capacity
Unshift(timeline, entry) ==
    LET grown == <<entry>> \o timeline
    IN IF Len(grown) > TimelineCap THEN SubSeq(grown, 1, Len(grown) - 1) ELSE grown

\* runAudit resumes with the result of the analysis, up to the await of
\* setTableauParameter (script.js:152-167, 775-779)
Record(a) ==
    /\ microtasks # <<>>
    /\ a = Head(microtasks)
    /\ audits[a].outcome = "result"
    /\ microtasks' = Tail(microtasks)
    /\ checkCount' = checkCount + 1
    /\ lastAnalysis' = audits[a].result
    /\ trustTimeline' = Unshift(trustTimeline, TimelineEntry(audits[a].result[1]))
    /\ uiState' = StatusLower(audits[a].result[1].status)
    /\ audits' = SetAudit(a, "writing", "result", audits[a].result)
    /\ UNCHANGED <<initPc, isTableauInitialized, currentWorksheet, valueHistory,
                   signalHistory, demoAnomalyActive, demoAnomalyValue, zScoreThreshold,
                   heroMetricField, hostParameter, callSignals, callInput, callResult, callPc>>

\* runAudit resumes in its catch block (script.js:169-172)
Catch(a) ==
    /\ microtasks # <<>>
    /\ a = Head(microtasks)
    /\ audits[a].outcome = "error"
    /\ microtasks' = Tail(microtasks)
    /\ uiState' = "error"
    /\ audits' = [audits EXCEPT ![a] = Finished]
    /\ UNCHANGED <<initPc, isTableauInitialized, currentWorksheet, checkCount,
                   lastAnalysis, trustTimeline, valueHistory, signalHistory,
                   demoAnomalyActive, demoAnomalyValue, zScoreThreshold,
                   heroMetricField, hostParameter, callSignals, callInput, callResult, callPc>>

\* variant: the value written is whether the status is SAFE
WriteParameterSafeOnly(a) ==
    /\ microtasks = <<>>
    /\ audits[a].pc = "writing"
    /\ hostParameter' = (audits[a].result[1].status = "SAFE")
    /\ audits' = [audits EXCEPT ![a] = Finished]
    /\ UNCHANGED <<initPc, isTableauInitialized, currentWorksheet, checkCount,
                   lastAnalysis, trustTimeline, valueHistory, signalHistory,
                   demoAnomalyActive, demoAnomalyValue, zScoreThreshold,
                   heroMetricField, uiState, microtasks, callSignals, callInput, callResult, callPc>>

\* setTableauParameter: changeValueAsync takes effect (script.js:779-781)
WriteParameter(a) ==
    /\ microtasks = <<>>
    /\ audits[a].pc = "writing"
    /\ hostParameter' = audits[a].result[1].isSafe
    /\ audits' = [audits EXCEPT ![a] = Finished]
    /\ UNCHANGED <<initPc, isTableauInitialized, currentWorksheet, checkCount,
                   lastAnalysis, trustTimeline, valueHistory, signalHistory,
                   demoAnomalyActive, demoAnomalyValue, zScoreThreshold,
                   heroMetricField, uiState, microtasks, callSignals, callInput, callResult, callPc>>

\* variant: a rejected host call reaches the catch block of runAudit
WriteParameterFailsIntoCatch(a) ==
    /\ microtasks = <<>>
    /\ audits[a].pc = "writing"
    /\ uiState' = "error"
    /\ audits' = [audits EXCEPT ![a] = Finished]
    /\ UNCHANGED <<initPc, isTableauInitialized, currentWorksheet, checkCount,
                   lastAnalysis, trustTimeline, valueHistory, signalHistory,
                   demoAnomalyActive, demoAnomalyValue, zScoreThreshold,
                   heroMetricField, hostParameter, microtasks, callSignals, callInput, callResult, callPc>>

\* setTableauParameter: the parameter is missing, or a host call rejects and
\* the catch logs it (script.js:780-782)
WriteParameterFails(a) ==
    /\ microtasks = <<>>
    /\ audits[a].pc = "writing"
    /\ audits' = [audits EXCEPT ![a] = Finished]
    /\ UNCHANGED <<initPc, isTableauInitialized, currentWorksheet, checkCount,
                   lastAnalysis, trustTimeline, valueHistory, signalHistory,
                   demoAnomalyActive, demoAnomalyValue, zScoreThreshold,
                   heroMetricField, uiState, hostParameter, microtasks,
                   callSignals, callInput, callResult, callPc>>

Init ==
    /\ initPc = "start"
    /\ isTableauInitialized = FALSE
    /\ currentWorksheet = Null
    /\ checkCount = 0
    /\ lastAnalysis = Null
    /\ trustTimeline = <<>>
    /\ valueHistory = <<>>
    /\ signalHistory = <<>>
    /\ demoAnomalyActive = FALSE
    /\ demoAnomalyValue = InitialDemoValue
    /\ zScoreThreshold = Number(250)
    /\ heroMetricField = heroMetricCandidates[1]
    /\ uiState = "none"
    /\ hostParameter = TRUE
    /\ audits = <<>>
    /\ microtasks = <<>>
    /\ callSignals = <<>>
    /\ callInput = NoInput
    /\ callResult = Null
    /\ callPc = "idle"

Next ==
    \/ InitStandalone
    \/ InitTableau
    \/ StartPolling
    \/ TimerTick
    \/ FilterChanged
    \/ injectExtreme
    \/ injectModerate
    \/ injectSubtle
    \/ injectDuplicate
    \/ resetNormal
    \/ \E val \in SliderValues : updateThreshold(val)
    \/ \E a \in DOMAIN audits : FetchFails(a)
    \/ \E a \in DOMAIN audits : \E i \in DOMAIN Tables : Analyze(a, i)
    \/ \E a \in DOMAIN audits : Record(a)
    \/ \E a \in DOMAIN audits : Catch(a)
    \/ \E a \in DOMAIN audits : WriteParameter(a)
    \/ \E a \in DOMAIN audits : WriteParameterFails(a)

Spec == Init /\ [][Next]_vars

(***************************************************************************)
(* The scorer on its own: the signals of one evaluation and the            *)
(* signalHistory left by the earlier ones are drawn from bounded sets,     *)
(* then the count is recorded and the score computed as the end of         *)
(* analyzeWorksheetData does (script.js:246-252).                          *)
(***************************************************************************)
\* the (type, severity) pairs runAllDetectors can push (script.js:298-426)
EmittedSeverities(t) ==
    CASE t \in {"Z_SCORE", "RATE_OF_CHANGE"} -> {"CRITICAL", "HIGH"}
      [] t = "HIGH_ZSCORE" -> {"LOW"}
      [] t \in {"BUSINESS_RULE", "NEGATIVE_VALUE", "DECIMAL_SHIFT"} -> {"CRITICAL"}
      [] t \in {"DUPLICATE_INFLATION", "CURRENCY_FLIP"} -> {"MEDIUM"}
      [] t = "DUPLICATE_ROWS" -> {"CRITICAL", "MEDIUM"}

SignalKinds ==
    UNION {{Signal(t, sev) : sev \in EmittedSeverities(t)} : t \in SignalTypes}
        \cup {SignalSaying("BUSINESS_RULE", "CRITICAL", ExceedsMaximum)}

SignalLists == UNION {[1..n -> SignalKinds] : n \in 0..MaxSignals}

SignalHistories == UNION {[1..n -> 0..MaxCount] : n \in 0..persistenceWindow}

NoDuplicateInfo == detectDuplicateRows(<<>>)

ScoreInit ==
    /\ initPc = "standalone"
    /\ isTableauInitialized = FALSE
    /\ currentWorksheet = Null
    /\ checkCount = 0
    /\ lastAnalysis = Null
    /\ trustTimeline = <<>>
    /\ valueHistory = <<>>
    /\ signalHistory \in SignalHistories
    /\ demoAnomalyActive = FALSE
    /\ demoAnomalyValue = InitialDemoValue
    /\ zScoreThreshold = Number(250)
    /\ heroMetricField = heroMetricCandidates[1]
    /\ uiState = "standalone"
    /\ hostParameter = TRUE
    /\ audits = <<>>
    /\ microtasks = <<>>
    /\ callSignals \in SignalLists
    /\ callInput = NoInput
    /\ callResult = Null
    /\ callPc = "call"

ScoreCall ==
    /\ callPc = "call"
    /\ signalHistory' = PushCapped(signalHistory, Len(callSignals), persistenceWindow)
    /\ lastAnalysis' = Some(calculateEnsembleTrustScore(0, callSignals, NoDuplicateInfo,
                                                        signalHistory'))
    /\ callPc' = "returned"
    /\ UNCHANGED <<initPc, isTableauInitialized, currentWorksheet, checkCount,
                   trustTimeline, valueHistory, demoAnomalyActive,
                   demoAnomalyValue, zScoreThreshold, heroMetricField, uiState,
                   hostParameter, audits, microtasks, callSignals, callInput,
                   callResult>>

ScoreNext == ScoreCall

ScoreSpec == ScoreInit /\ [][ScoreNext]_vars

(***************************************************************************)
(* Direct calls of runAllDetectors, as analyzeWorksheetData makes them     *)
(* (script.js:224-244): a population, its statistics, its last value as    *)
(* previousValue, and as latest value that last value or the value of one  *)
(* of the demo injections (script.js:231-235); no duplicate rows.          *)
(***************************************************************************)
\* metric values of the populations: -0.12, 0, 0.12, 1, 2, 3
PopulationValues == {-12, 0, 12, 100, 200, 300}

\* the values the demo controls inject: 2.0, 0.18, 0.14, 0.13
InjectedValues == {200, 18, 14, 13}

\* the default threshold and the two ends of the slider
Thresholds == {Number(zScoreThresholdMin), Number(250), Number(zScoreThresholdMax)}

Populations == UNION {[1..n -> PopulationValues] : n \in 1..MaxPopulation}

DetectInit ==
    /\ initPc = "standalone"
    /\ isTableauInitialized = FALSE
    /\ currentWorksheet = Null
    /\ checkCount = 0
    /\ lastAnalysis = Null
    /\ trustTimeline = <<>>
    /\ valueHistory = <<>>
    /\ signalHistory = <<>>
    /\ demoAnomalyActive \in BOOLEAN
    /\ demoAnomalyValue \in InjectedValues
    /\ zScoreThreshold \in Thresholds
    /\ heroMetricField = heroMetricCandidates[1]
    /\ uiState = "standalone"
    /\ hostParameter = TRUE
    /\ audits = <<>>
    /\ microtasks = <<>>
    /\ callSignals = <<>>
    /\ \E allValues \in Populations :
          callInput = [allValues |-> allValues,
                       latestValue |-> LatestValue(allValues)]
    /\ callResult = Null
    /\ callPc = "detect"

DetectCall ==
    /\ callPc = "detect"
    /\ callSignals' = runAllDetectors(callInput.latestValue,
                                      PreviousValue(callInput.allValues),
                                      calculateStatistics(callInput.allValues),
                                      callInput.allValues, NoDuplicateInfo)
    /\ callPc' = "detected"
    /\ UNCHANGED <<initPc, isTableauInitialized, currentWorksheet, checkCount,
                   lastAnalysis, trustTimeline, valueHistory, signalHistory,
                   demoAnomalyActive, demoAnomalyValue, zScoreThreshold,
                   heroMetricField, uiState, hostParameter, audits, microtasks,
                   callInput, callResult>>

DetectNext == DetectCall

DetectSpec == DetectInit /\ [][DetectNext]_vars

(***************************************************************************)
(* The threshold control: updateThreshold called with any string, between  *)
(* the evaluations it starts (script.js:813-817).                          *)
(***************************************************************************)
\* argument strings: "1.5", "5", "9" and "abc"
ThresholdInputs == SliderValues \cup { <<"9">>, <<"a","b","c">> }

ThresholdNext ==
    \/ InitStandalone
    \/ InitTableau
    \/ \E val \in ThresholdInputs : updateThreshold(val)
    \/ \E a \in DOMAIN audits : FetchFails(a)
    \/ \E a \in DOMAIN audits : \E i \in DOMAIN Tables : Analyze(a, i)
    \/ \E a \in DOMAIN audits : Record(a)
    \/ \E a \in DOMAIN audits : Catch(a)
    \/ \E a \in DOMAIN audits : WriteParameter(a)
    \/ \E a \in DOMAIN audits : WriteParameterFails(a)

ThresholdSpec == Init /\ [][ThresholdNext]_vars

(***************************************************************************)
(* Direct calls of detectDuplicateRows (script.js:258-283) on the rows of  *)
(* a two-column table.                                                     *)
(***************************************************************************)
\* cell values: the strings "a", "a|a" and "1", and the number 1
RowCells == {Str(<<"a">>), Str(<<"a", "|", "a">>), Str(<<"1">>), Num(100)}

RowKinds == [1..2 -> RowCells]

\* ten rows, the third and the seventh equal to the first
TenRows ==
    << <<Str(<<"a">>), Str(<<"a">>)>>,
       <<Str(<<"a">>), Str(<<"1">>)>>,
       <<Str(<<"a">>), Str(<<"a">>)>>,
       <<Str(<<"a">>), Str(<<"a", "|", "a">>)>>,
       <<Str(<<"1">>), Str(<<"a">>)>>,
       <<Str(<<"1">>), Str(<<"1">>)>>,
       <<Str(<<"a">>), Str(<<"a">>)>>,
       <<Str(<<"1">>), Str(<<"a", "|", "a">>)>>,
       <<Str(<<"a", "|", "a">>), Str(<<"1">>)>>,
       <<Str(<<"a", "|", "a">>), Str(<<"a", "|", "a">>)>> >>

RowTables == UNION {[1..n -> RowKinds] : n \in 0..MaxRows} \cup {TenRows}

DuplicateInit ==
    /\ initPc = "standalone"
    /\ isTableauInitialized = FALSE
    /\ currentWorksheet = Null
    /\ checkCount = 0
    /\ lastAnalysis = Null
    /\ trustTimeline = <<>>
    /\ valueHistory = <<>>
    /\ signalHistory = <<>>
    /\ demoAnomalyActive = FALSE
    /\ demoAnomalyValue = InitialDemoValue
    /\ zScoreThreshold = Number(250)
    /\ heroMetricField = heroMetricCandidates[1]
    /\ uiState = "standalone"
    /\ hostParameter = TRUE
    /\ audits = <<>>
    /\ microtasks = <<>>
    /\ callSignals = <<>>
    /\ \E rows \in RowTables : callInput = [rows |-> rows]
    /\ callResult = Null
    /\ callPc = "rows"

DuplicateCall ==
    /\ callPc = "rows"
    /\ callResult' = Some(detectDuplicateRows(callInput.rows))
    /\ callPc' = "counted"
    /\ UNCHANGED <<initPc, isTableauInitialized, currentWorksheet, checkCount,
                   lastAnalysis, trustTimeline, valueHistory, signalHistory,
                   demoAnomalyActive, demoAnomalyValue, zScoreThreshold,
                   heroMetricField, uiState, hostParameter, audits, microtasks,
                   callSignals, callInput>>

DuplicateNext == DuplicateCall

DuplicateSpec == DuplicateInit /\ [][DuplicateNext]_vars

(***************************************************************************)
(* The audit loop late in a session: init has run its first audit on the   *)
(* clean table, and the demo buttons Dupe, Subtle, Extreme and Moderate    *)
(* have then been pressed in turn, twice over, each evaluation running to  *)
(* its parameter write before the next press (script.js:139-173, 788-807). *)
(* From there the loop runs as in Spec.                                    *)
(***************************************************************************)
\* the latest values of those nine evaluations
ReplayedValues == <<12, 13, 14, 200, 18, 13, 14, 200, 18>>

\* script.js:152-167: what runAudit makes of the engine once it holds a result
Recorded(before, result) ==
    [valueHistory |-> PushCapped(before.valueHistory, result.latestValue, ValueHistoryCap),
     signalHistory |-> PushCapped(before.signalHistory, result.signalsFired,
                                  persistenceWindow),
     checkCount |-> before.checkCount + 1,
     lastAnalysis |-> Some(result),
     trustTimeline |-> Unshift(before.trustTimeline, TimelineEntry(result)),
     hostParameter |-> result.isSafe]

\* the result of one evaluation of the clean table (in a singleton set)
Evaluated(before, latestValue) ==
    {calculateEnsembleTrustScore(latestValue, signals, PopulationOf[1].duplicateInfo,
                                 PushCapped(before.signalHistory, Len(signals),
                                            persistenceWindow)) :
        signals \in {SignalsOf(PopulationOf[1], latestValue)}}

\* the engine (in a singleton set) after the first k of the evaluations
RECURSIVE EngineAfter(_)
EngineAfter(k) ==
    IF k = 0
    THEN {[valueHistory |-> <<>>, signalHistory |-> <<>>, checkCount |-> 0,
           lastAnalysis |-> Null, trustTimeline |-> <<>>, hostParameter |-> TRUE]}
    ELSE UNION {{Recorded(before, result) : result \in Evaluated(before, ReplayedValues[k])} :
                   before \in EngineAfter(k - 1)}

HistoryInit ==
    /\ initPc = "polling"
    /\ isTableauInitialized = TRUE
    /\ currentWorksheet = Some("ws")
    /\ demoAnomalyActive = TRUE
    /\ demoAnomalyValue = ReplayedValues[Len(ReplayedValues)]
    /\ zScoreThreshold = Number(250)
    /\ heroMetricField = heroMetricCandidates[1]
    /\ \E engine \in EngineAfter(Len(ReplayedValues)) :
          /\ checkCount = engine.checkCount
          /\ lastAnalysis = engine.lastAnalysis
          /\ trustTimeline = engine.trustTimeline
          /\ valueHistory = engine.valueHistory
          /\ signalHistory = engine.signalHistory
          /\ uiState = StatusLower(engine.lastAnalysis[1].status)
          /\ hostParameter = engine.hostParameter
    /\ audits = <<>>
    /\ microtasks = <<>>
    /\ callSignals = <<>>
    /\ callInput = NoInput
    /\ callResult = Null
    /\ callPc = "idle"

HistoryNext ==
    \/ TimerTick
    \/ injectExtreme
    \/ injectDuplicate
    \/ resetNormal
    \/ \E a \in DOMAIN audits : FetchFails(a)
    \/ \E a \in DOMAIN audits : \E i \in DOMAIN Tables : Analyze(a, i)
    \/ \E a \in DOMAIN audits : Record(a)
    \/ \E a \in DOMAIN audits : Catch(a)
    \/ \E a \in DOMAIN audits : WriteParameter(a)

HistorySpec == HistoryInit /\ [][HistoryNext]_vars

(***************************************************************************)
(* Properties of the scorer (checked under ScoreSpec)                      *)
(***************************************************************************)
Returned == callPc = "returned"

Result == lastAnalysis[1]

\* C1: whatever signals fired and whatever signalHistory held, the
\* trustScore returned lies in [0, 100], the persistence penalty included.
C1_TrustScoreInRange ==
    Returned => Result.trustScore >= 0 /\ Result.trustScore <= FullTrust

\* the penalty was applied to a score below 15 and the result stopped at 0
C1_Witness ==
    /\ Returned
    /\ Result.persistentAnomaly
    /\ Result.signalsFired > 0
    /\ FullTrust - weightedPenalty(callSignals) < PersistencePenalty
    /\ Result.trustScore = 0

\* C2: the verdict is a function of the trustScore alone: below 65 LOCKED
\* and unsafe, from 65 up to 90 WARNING and safe, from 90 SAFE and safe; so
\* isSafe is false exactly when the status is LOCKED.
C2_VerdictFromScore ==
    Returned =>
        /\ Result.status \in {"SAFE", "WARNING", "LOCKED"}
        /\ (Result.trustScore < 6500) = (Result.status = "LOCKED")
        /\ (Result.trustScore >= 6500 /\ Result.trustScore < 9000) = (Result.status = "WARNING")
        /\ (Result.trustScore >= 9000) = (Result.status = "SAFE")
        /\ Result.isSafe = (Result.status # "LOCKED")

\* a score exactly on the lock boundary, reached through the persistence penalty
C2_Witness ==
    /\ Returned
    /\ Result.trustScore = 6500
    /\ Result.persistentAnomaly
    /\ Result.status = "WARNING"
    /\ Result.isSafe

\* C3: an evaluation that fires no signal scores 100, SAFE, isSafe, with no
\* fingerprint, whatever signalHistory holds, the persistence check being
\* true included.
C3_NoSignalsFullTrust ==
    (Returned /\ callSignals = <<>>) =>
        /\ Result.trustScore = FullTrust
        /\ Result.status = "SAFE"
        /\ Result.isSafe
        /\ Result.fingerprint = Null

\* no signal fired while two of the last three evaluations had signals
C3_Witness ==
    /\ Returned
    /\ callSignals = <<>>
    /\ signalHistory = <<1, 1, 0>>
    /\ Result.persistentAnomaly
    /\ Result.trustScore = FullTrust

OnlyCriticalBusiness(signals) ==
    /\ signals # <<>>
    /\ \A k \in DOMAIN signals :
          signals[k].category = "BUSINESS" /\ signals[k].severity = "CRITICAL"

\* C4: when every fired signal is a CRITICAL BUSINESS signal and no
\* persistence penalty applies, the trustScore is exactly 65, which does not
\* lock: the status is WARNING and isSafe is true.
C4_LockBoundaryExclusive ==
    (Returned /\ OnlyCriticalBusiness(callSignals) /\ ~Result.persistentAnomaly) =>
        /\ Result.trustScore = 6500
        /\ Result.status = "WARNING"
        /\ Result.isSafe

\* a single NEGATIVE_VALUE signal on an engine with no earlier evaluation
C4_Witness ==
    /\ Returned
    /\ callSignals = <<Signal("NEGATIVE_VALUE", "CRITICAL")>>
    /\ signalHistory = <<1>>
    /\ Result.trustScore = 6500
    /\ Result.status = "WARNING"

\* clamp(100 - weightedPenalty, 0, 100) of the claim
ClampedScore(signals) ==
    LET raw == FullTrust - weightedPenalty(signals)
    IN IF raw < 0 THEN 0 ELSE IF raw > FullTrust THEN FullTrust ELSE raw

\* C6: the persistence penalty is applied exactly when the persistence check
\* is true and a signal fired: the trustScore is then
\* max(0, clamp(100 - weightedPenalty, 0, 100) - 15), and otherwise
\* clamp(100 - weightedPenalty, 0, 100).
C6_PenaltyExactlyWhenPersistentAndFired ==
    Returned =>
        Result.trustScore =
            IF checkPersistence(signalHistory) /\ Len(callSignals) > 0
            THEN (IF ClampedScore(callSignals) - 1500 < 0 THEN 0
                  ELSE ClampedScore(callSignals) - 1500)
            ELSE ClampedScore(callSignals)

\* the penalty was applied to one signal and took 15 points off
C6_Witness ==
    /\ Returned
    /\ Len(callSignals) = 1
    /\ signalHistory = <<1, 0, 1>>
    /\ Result.trustScore = ClampedScore(callSignals) - 1500
    /\ Result.trustScore > 0

(***************************************************************************)
(* Properties of the audit loop (checked under Spec)                       *)
(***************************************************************************)
\* the step in which the analysis of audit a returns a result
Scores(a) ==
    /\ audits[a].pc = "fetching"
    /\ audits'[a].pc = "settled"
    /\ audits'[a].outcome = "result"

\* the step in which the analysis of audit a throws or its fetch rejects
Fails(a) ==
    /\ audits[a].pc = "fetching"
    /\ audits'[a].pc = "settled"
    /\ audits'[a].outcome = "error"

\* the step in which runAudit catches the error of audit a
Catches(a) ==
    /\ audits[a].pc = "settled"
    /\ audits[a].outcome = "error"
    /\ audits'[a].pc = "done"

\* the persistence check of the claim, over the recorded counts
TwoOfLastThree(counts) ==
    /\ Len(counts) >= 3
    /\ Cardinality({k \in (Len(counts) - 2)..Len(counts) : counts[k] > 0}) >= 2

\* C5: in every evaluation the signal count is appended to signalHistory
\* before the persistence check; the check is false while fewer than 3 counts
\* are recorded and otherwise true iff at least 2 of the last 3 counts are
\* positive, so [1,0,1] gives persistentAnomaly true and [1,0,0] false.
C5_PersistenceOverEvaluations ==
    [][\A a \in DOMAIN audits :
          Scores(a) =>
             LET result == audits'[a].result[1]
             IN /\ signalHistory' # <<>>
                /\ signalHistory'[Len(signalHistory')] = result.signalsFired
                /\ Len(signalHistory') <= 3
                /\ Len(signalHistory') = (IF Len(signalHistory) < 3
                                          THEN Len(signalHistory) + 1 ELSE 3)
                /\ result.persistentAnomaly = TwoOfLastThree(signalHistory')
                /\ (signalHistory' = <<1, 0, 1>> => result.persistentAnomaly)
                /\ (signalHistory' = <<1, 0, 0>> => ~result.persistentAnomaly)]_vars

\* the third evaluation of the sequence [1,0,1] has settled as persistent
C5_Witness ==
    /\ signalHistory = <<1, 0, 1>>
    /\ \E a \in DOMAIN audits :
          /\ audits[a].pc = "settled"
          /\ audits[a].outcome = "result"
          /\ audits[a].result[1].signalsFired = 1
          /\ audits[a].result[1].persistentAnomaly

\* C7: signalHistory becomes empty only through resetNormal; no evaluation,
\* inject* action or updateThreshold call clears it, and an evaluation with
\* zero signals appends a 0 and keeps the counts recorded before it, apart
\* from evicting the oldest beyond the window.
C7_OnlyResetClearsHistory ==
    [][/\ (signalHistory # <<>> /\ signalHistory' = <<>>) => resetNormal
       /\ \A a \in DOMAIN audits :
             (Scores(a) /\ audits'[a].result[1].signalsFired = 0) =>
                signalHistory' =
                   (IF Len(signalHistory) >= 3 THEN Tail(signalHistory)
                    ELSE signalHistory) \o <<0>>]_vars

\* a reading without signals has settled and the count before it is kept
C7_Witness ==
    /\ signalHistory = <<1, 0>>
    /\ \E a \in DOMAIN audits :
          /\ audits[a].pc = "settled"
          /\ audits[a].outcome = "result"
          /\ audits[a].result[1].signalsFired = 0

\* the tables that are clean data: no detector fires on them
CleanData == {i \in DOMAIN Tables : Tables[i] = CleanTable}

\* an engine that has not evaluated anything and was not touched
FreshEngine ==
    /\ checkCount = 0
    /\ lastAnalysis = Null
    /\ valueHistory = <<>>
    /\ signalHistory = <<>>
    /\ trustTimeline = <<>>
    /\ ~demoAnomalyActive
    /\ zScoreThreshold = Number(250)
    /\ Len(audits) = 1

\* C8: after a lock the re-evaluation that resetNormal starts, run on the
\* clean data with no other request after it, is SAFE with the trustScore a
\* freshly started engine gives the same data: both give 100 with no signal
\* and no persistent anomaly.
C8_ResetRoundTrip ==
    [][\A i \in CleanData :
          /\ audits # <<>>
          /\ audits[Len(audits)].caller = "resetNormal" \/ FreshEngine
          /\ Analyze(Len(audits), i)
          => LET result == audits'[Len(audits)].result[1]
             IN /\ audits'[Len(audits)].outcome = "result"
                /\ result.status = "SAFE"
                /\ result.isSafe
                /\ result.trustScore = FullTrust
                /\ result.signalsFired = 0
                /\ result.fingerprint = Null]_vars

\* the last analysis is a lock on an injected value and the re-evaluation
\* of resetNormal has settled SAFE at 100
C8_Witness ==
    /\ lastAnalysis # Null
    /\ lastAnalysis[1].status = "LOCKED"
    /\ lastAnalysis[1].latestValue = demoAnomalyValue
    /\ ~demoAnomalyActive
    /\ audits # <<>>
    /\ audits[Len(audits)].caller = "resetNormal"
    /\ audits[Len(audits)].pc = "settled"
    /\ audits[Len(audits)].outcome = "result"
    /\ audits[Len(audits)].result[1].status = "SAFE"
    /\ audits[Len(audits)].result[1].trustScore = FullTrust

\* C9: evaluations are serialized: at no time are two runAudit calls in
\* flight at once (a request made during an evaluation is ignored or queued).
C9_EvaluationsSerialized == InFlight <= 1

\* C10: an evaluation that fails (MetricNotFound, NoNumericData, a rejected
\* fetch) produces no score, sets the display state to 'error', and leaves
\* valueHistory, signalHistory, trustTimeline, lastAnalysis and checkCount
\* as they were.
C10_FailedEvaluationLeavesNoTrace ==
    [][\A a \in DOMAIN audits :
          /\ \A i \in DOMAIN Tables :
                (Tables[i] \in {NoMetricTable, NoNumbersTable} /\ Analyze(a, i))
                   => Fails(a)
          /\ FetchFails(a) => Fails(a)
          /\ Fails(a) =>
                /\ audits'[a].result = Null
                /\ microtasks' = Append(microtasks, a)
                /\ UNCHANGED <<valueHistory, signalHistory, trustTimeline,
                               lastAnalysis, checkCount>>
          /\ Catches(a) =>
                /\ uiState' = "error"
                /\ UNCHANGED <<valueHistory, signalHistory, trustTimeline,
                               lastAnalysis, checkCount>>]_vars

\* a failed evaluation was caught after one evaluation had been recorded
C10_Witness ==
    /\ uiState = "error"
    /\ checkCount = 1
    /\ lastAnalysis # Null
    /\ Len(trustTimeline) = 1
    /\ Len(valueHistory) = 1
    /\ Len(signalHistory) = 1
    /\ InFlight = 0

\* C17: whenever at least 2 of the last 3 evaluations had signals, the
\* current evaluation is LOCKED even if it fired only one signal.
C17_PersistenceLocks ==
    (Returned /\ callSignals # <<>> /\ TwoOfLastThree(signalHistory)) =>
        Result.status = "LOCKED"

HasSignal(signals, type, severity) ==
    \E k \in DOMAIN signals :
        signals[k].type = type /\ signals[k].severity = severity

HasCategory(signals, category) ==
    \E k \in DOMAIN signals : signals[k].category = category

\* C18: an evaluation that fires a CRITICAL Z_SCORE signal together with at
\* least one BUSINESS signal is LOCKED with isSafe false, whatever
\* signalHistory holds.
C18_CriticalZScoreWithBusinessLocks ==
    (Returned /\ HasSignal(callSignals, "Z_SCORE", "CRITICAL")
              /\ HasCategory(callSignals, "BUSINESS")) =>
        /\ Result.status = "LOCKED"
        /\ ~Result.isSafe

\* Z_SCORE, BUSINESS_RULE and DECIMAL_SHIFT fired on an engine with no
\* earlier evaluation: 100 - 40 - 35 = 25, locked without persistence
C18_Witness ==
    /\ Returned
    /\ callSignals = <<Signal("Z_SCORE", "CRITICAL"),
                       Signal("BUSINESS_RULE", "CRITICAL"),
                       Signal("DECIMAL_SHIFT", "CRITICAL")>>
    /\ signalHistory = <<3>>
    /\ ~Result.persistentAnomaly
    /\ Result.trustScore = 2500
    /\ Result.status = "LOCKED"
    /\ ~Result.isSafe

\* C19: every fired signal adds its detector's penalty to its category; a
\* DUPLICATE_ROWS signal (TEMPORAL, penalty 70) lowers the trustScore, so an
\* evaluation whose only signals are DUPLICATE_ROWS scores below 100.
C19_DuplicateRowsPenalised ==
    (Returned /\ callSignals # <<>>
              /\ \A k \in DOMAIN callSignals : callSignals[k].type = "DUPLICATE_ROWS") =>
        Result.trustScore < 10000

\* C11: fail-closed: when the latest evaluation ended in the error state and
\* nothing is in flight any more, the boolean the host holds is false; it is
\* never left at true from an earlier evaluation.
C11_FailClosed ==
    (uiState = "error" /\ InFlight = 0) => hostParameter = FALSE

\* the tables from which analyzeWorksheetData returns a result
ValidData == {i \in DOMAIN Tables : Tables[i] \in {CleanTable, NegativeTable, DuplicateTable}}

\* between two tasks, and while the model still has room for a call, the
\* armed timer can fire
PollingAlive ==
    (/\ initPc = "polling"
     /\ microtasks = <<>>
     /\ Len(audits) < MaxAudits
     /\ InFlight < MaxInFlight) => ENABLED TimerTick

\* C12: a failed evaluation does not stop polling: with the display in the
\* error state the timer still starts an evaluation, and on valid data that
\* evaluation returns a SAFE/WARNING/LOCKED result, which is recorded and
\* shown, and goes on to write the parameter.
C12_PollingSurvivesFailure ==
    /\ []PollingAlive
    /\ [][/\ (uiState = "error" /\ TimerTick) =>
                /\ Len(audits') = Len(audits) + 1
                /\ audits'[Len(audits')] = Audit("timer", "fetching", "pending", Null)
                /\ uiState' = "loading"
          /\ \A a \in DOMAIN audits : \A i \in ValidData :
                (audits[a].caller = "timer" /\ Analyze(a, i)) =>
                   /\ Scores(a)
                   /\ audits'[a].result[1].status \in {"SAFE", "WARNING", "LOCKED"}
          /\ \A a \in DOMAIN audits :
                (audits[a].caller = "timer" /\ Record(a)) =>
                   /\ uiState' \in {"safe", "warning", "locked"}
                   /\ lastAnalysis' = audits[a].result
                   /\ audits'[a].pc = "writing"]_vars

\* init's own evaluation failed (it returned without being counted), and the
\* evaluation of the first timer tick has been recorded and awaits its write
C12_Witness ==
    /\ initPc = "polling"
    /\ currentWorksheet # Null
    /\ Len(audits) = 2
    /\ audits[1] = Finished
    /\ audits[2].caller = "timer"
    /\ audits[2].pc = "writing"
    /\ checkCount = 1
    /\ uiState \in {"safe", "warning", "locked"}
    /\ ENABLED WriteParameter(2)

\* C13: when the write of the parameter fails, the evaluation has already
\* stored its result in lastAnalysis, added it to the timeline and shown its
\* state, and the failure changes none of that: the display does not switch
\* to the error state.
C13_WriteFailureKeepsResult ==
    [][\A a \in DOMAIN audits :
          /\ (audits[a].pc # "writing" /\ audits'[a].pc = "writing") =>
                /\ lastAnalysis' = audits[a].result
                /\ trustTimeline' # <<>>
                /\ trustTimeline'[1].trustScore = audits[a].result[1].trustScore
                /\ trustTimeline'[1].status = audits[a].result[1].status
                /\ uiState' \in {"safe", "warning", "locked"}
          /\ WriteParameterFails(a) =>
                /\ UNCHANGED <<lastAnalysis, trustTimeline, uiState, checkCount,
                               hostParameter>>
                /\ audits'[a].pc = "done"]_vars

\* a LOCKED result is stored and shown, its write failed (the host still
\* holds true) and the evaluation has returned
C13_Witness ==
    /\ InFlight = 0
    /\ checkCount = 1
    /\ lastAnalysis # Null
    /\ lastAnalysis[1].status = "LOCKED"
    /\ Len(trustTimeline) = 1
    /\ uiState = "locked"
    /\ hostParameter = TRUE

DetectReturned == callPc = "detected"

HasType(signals, type) == \E k \in DOMAIN signals : signals[k].type = type

\* the population of the call: its size, n * |latest - mean| and n^2 * variance
PopCount == Len(callInput.allValues)

PopDeviation == Abs(PopCount * callInput.latestValue - Sum(callInput.allValues))

PopDev ==
    PopCount * SumSq(callInput.allValues)
        - Sum(callInput.allValues) * Sum(callInput.allValues)

\* the threshold in halves (1.5 is 3, 2.5 is 5, 5 is 10)
ThresholdHalves == zScoreThreshold.v \div 50

ZeroVariance ==
    \A k \in DOMAIN callInput.allValues : callInput.allValues[k] = callInput.allValues[1]

\* |latest - mean| of a population whose values are all equal, in hundredths
DistanceFromConstant == Abs(callInput.latestValue - callInput.allValues[1])

\* C15: for a population with zero variance the Z-score is |latest - mean|
\* (denominator 1): Z_SCORE fires iff that distance exceeds the threshold,
\* CRITICAL iff it exceeds 1.5 x threshold, and HIGH_ZSCORE fires iff it lies
\* in (0.7 x threshold, threshold]; the decisions are always defined.
C15_ZeroVarianceUsesOne ==
    (DetectReturned /\ ZeroVariance) =>
        /\ HasType(callSignals, "Z_SCORE") = (DistanceFromConstant > zScoreThreshold.v)
        /\ HasSignal(callSignals, "Z_SCORE", "CRITICAL")
              = (2 * DistanceFromConstant > 3 * zScoreThreshold.v)
        /\ HasSignal(callSignals, "Z_SCORE", "HIGH")
              = (/\ DistanceFromConstant > zScoreThreshold.v
                 /\ 2 * DistanceFromConstant <= 3 * zScoreThreshold.v)
        /\ HasType(callSignals, "HIGH_ZSCORE")
              = (/\ 10 * DistanceFromConstant > 7 * zScoreThreshold.v
                 /\ DistanceFromConstant <= zScoreThreshold.v)

\* all values are 0, 2.0 is injected and the threshold is 2.5: the distance
\* 2.0 lies in (1.75, 2.5], and HIGH_ZSCORE fires without Z_SCORE
C15_Witness ==
    /\ DetectReturned
    /\ callInput.allValues = <<0, 0>>
    /\ callInput.latestValue = 200
    /\ zScoreThreshold = Number(250)
    /\ HasType(callSignals, "HIGH_ZSCORE")
    /\ ~HasType(callSignals, "Z_SCORE")

\* |latest - mean| / max(std, 1) > p / q
ClaimedZScoreGT(p, q) ==
    IF PopDev < 10000 * PopCount * PopCount
    THEN PopDeviation * q > p * 100 * PopCount
    ELSE PopDeviation * PopDeviation * q * q > p * p * PopDev

\* |latest - mean| / (std || 1) > p / q
ActualZScoreGT(p, q) ==
    IF PopDev = 0
    THEN PopDeviation * q > p * 100 * PopCount
    ELSE PopDeviation * PopDeviation * q * q > p * p * PopDev

\* C20 as stated: Z_SCORE fires iff |latest - mean| / max(std, 1) > threshold
\* for every population, those with 0 < std < 1 included, CRITICAL iff the
\* quotient exceeds 1.5 x threshold; HIGH_ZSCORE fires iff the quotient lies
\* in (0.7 x threshold, threshold].
C20_ZScoreOverMaxOfStdAndOne ==
    DetectReturned =>
        /\ HasType(callSignals, "Z_SCORE") = ClaimedZScoreGT(ThresholdHalves, 2)
        /\ HasSignal(callSignals, "Z_SCORE", "CRITICAL")
              = ClaimedZScoreGT(3 * ThresholdHalves, 4)
        /\ HasType(callSignals, "HIGH_ZSCORE")
              = (/\ ClaimedZScoreGT(7 * ThresholdHalves, 20)
                 /\ ~ClaimedZScoreGT(ThresholdHalves, 2))

\* C20 amended: the quotient is |latest - mean| / std whenever std > 0, and
\* |latest - mean| / 1 only when std = 0; with that quotient Z_SCORE fires
\* iff it exceeds the threshold, CRITICAL iff it exceeds 1.5 x threshold and
\* HIGH otherwise, and HIGH_ZSCORE fires iff it lies in
\* (0.7 x threshold, threshold].
C20_ZScoreOverStdOrOne ==
    DetectReturned =>
        /\ HasType(callSignals, "Z_SCORE") = ActualZScoreGT(ThresholdHalves, 2)
        /\ HasSignal(callSignals, "Z_SCORE", "CRITICAL")
              = ActualZScoreGT(3 * ThresholdHalves, 4)
        /\ HasSignal(callSignals, "Z_SCORE", "HIGH")
              = (/\ ActualZScoreGT(ThresholdHalves, 2)
                 /\ ~ActualZScoreGT(3 * ThresholdHalves, 4))
        /\ HasType(callSignals, "HIGH_ZSCORE")
              = (/\ ActualZScoreGT(7 * ThresholdHalves, 20)
                 /\ ~ActualZScoreGT(ThresholdHalves, 2))

\* values 0.12 and 1 (std 0.44), 2.0 injected, threshold 1.5: the distance
\* 1.44 is below the threshold, the quotient 3.27 is above 1.5 x threshold
C20_Witness ==
    /\ DetectReturned
    /\ callInput.allValues = <<12, 100>>
    /\ callInput.latestValue = 200
    /\ zScoreThreshold = Number(150)
    /\ PopDev > 0
    /\ PopDev < 10000 * PopCount * PopCount
    /\ ~ClaimedZScoreGT(ThresholdHalves, 2)
    /\ HasSignal(callSignals, "Z_SCORE", "CRITICAL")

(***************************************************************************)
(* Properties of the threshold control (checked under ThresholdSpec)       *)
(***************************************************************************)
\* C16: after any sequence of updateThreshold calls the active threshold is
\* a number within [zScoreThresholdMin, zScoreThresholdMax] = [1.5, 5.0].
C16_ThresholdWithinRange ==
    /\ ~zScoreThreshold.nan
    /\ zScoreThreshold.v >= zScoreThresholdMin
    /\ zScoreThreshold.v <= zScoreThresholdMax

(***************************************************************************)
(* RATE_OF_CHANGE (checked under DetectSpec)                               *)
(***************************************************************************)
\* the previous and the latest value of the call
CallPrevious == callInput.allValues[Len(callInput.allValues)]

CallLatest == callInput.latestValue

\* |latest - previous| / previous > a / 100, previous # 0
ClaimedChangeGT(a) ==
    IF CallPrevious > 0
    THEN Abs(CallLatest - CallPrevious) * 100 > a * CallPrevious
    ELSE Abs(CallLatest - CallPrevious) * 100 < a * CallPrevious

\* |(latest - previous) / previous| > a / 100, previous # 0
ActualChangeGT(a) ==
    Abs(CallLatest - CallPrevious) * 100 > a * Abs(CallPrevious)

\* C21 as stated: RATE_OF_CHANGE fires iff previous # 0 and
\* |value - previous| / previous > 0.15, CRITICAL iff the change exceeds 0.30
\* and HIGH otherwise; with a negative previous the quotient is not positive
\* and the detector does not fire.
C21_RateOfChangeOverPrevious ==
    DetectReturned =>
        /\ HasType(callSignals, "RATE_OF_CHANGE")
              = (CallPrevious # 0 /\ ClaimedChangeGT(15))
        /\ HasSignal(callSignals, "RATE_OF_CHANGE", "CRITICAL")
              = (CallPrevious # 0 /\ ClaimedChangeGT(30))
        /\ (CallPrevious < 0 => ~HasType(callSignals, "RATE_OF_CHANGE"))

\* C21 amended: RATE_OF_CHANGE fires iff previous # 0 and
\* |value - previous| / |previous| > 0.15, CRITICAL iff that change exceeds
\* 0.30 and HIGH otherwise, for every sign of previous; a negative previous
\* fires the detector as a positive one of the same magnitude does.
C21_RateOfChangeOverMagnitude ==
    DetectReturned =>
        /\ HasType(callSignals, "RATE_OF_CHANGE")
              = (CallPrevious # 0 /\ ActualChangeGT(15))
        /\ HasSignal(callSignals, "RATE_OF_CHANGE", "CRITICAL")
              = (CallPrevious # 0 /\ ActualChangeGT(30))
        /\ HasSignal(callSignals, "RATE_OF_CHANGE", "HIGH")
              = (CallPrevious # 0 /\ ActualChangeGT(15) /\ ~ActualChangeGT(30))
        /\ Cardinality({k \in DOMAIN callSignals :
                           callSignals[k].type = "RATE_OF_CHANGE"}) <= 1

\* the last reading is -0.12 and 0.13 is injected: the detector fires
C21_Witness ==
    /\ DetectReturned
    /\ CallPrevious < 0
    /\ demoAnomalyActive
    /\ HasSignal(callSignals, "RATE_OF_CHANGE", "CRITICAL")

(***************************************************************************)
(* Properties of detectDuplicateRows (checked under DuplicateSpec)         *)
(***************************************************************************)
\* cell?.value ?? cell?.formattedValue ?? '': the value a cell resolves to,
\* a number or a string
ResolvedValue(cell) ==
    IF cell.kind = "number" THEN [number |-> TRUE, num |-> cell.num, str |-> <<>>]
    ELSE [number |-> FALSE, num |-> 0, str |-> cell.str]

ResolvedRow(row) == [i \in DOMAIN row |-> ResolvedValue(row[i])]

\* the rows whose resolved cell values are those of an earlier row
ExactDuplicates(rows) ==
    {i \in DOMAIN rows : \E j \in 1..(i - 1) : ResolvedRow(rows[i]) = ResolvedRow(rows[j])}

Counted == callPc = "counted"

\* C22: for a table of at least 2 rows duplicateCount is the number of rows
\* whose ordered sequence of resolved cell values is identical to that of an
\* earlier row (rows that differ in any cell are never counted),
\* uniqueRows = totalRows - duplicateCount, duplicateRatio =
\* duplicateCount / totalRows and hasDuplicates iff duplicateCount > 0; the
\* ten rows with rows 3 and 7 equal to row 1 give 2 and 8; fewer than 2
\* rows give a zeroed result with hasDuplicates false.
C22_ExactMatchDuplicates ==
    Counted =>
        LET rows == callInput.rows
            info == callResult[1]
        IN IF Len(rows) < 2
           THEN /\ ~info.hasDuplicates
                /\ info.duplicateCount = 0
                /\ info.duplicateRatio[1] = 0
           ELSE /\ info.duplicateCount = Cardinality(ExactDuplicates(rows))
                /\ info.totalRows = Len(rows)
                /\ info.uniqueRows = info.totalRows - info.duplicateCount
                /\ info.duplicateRatio = <<info.duplicateCount, info.totalRows>>
                /\ info.hasDuplicates = (info.duplicateCount > 0)
                /\ (rows = TenRows => info.duplicateCount = 2 /\ info.uniqueRows = 8)

(***************************************************************************)
(* The fingerprint (checked under ScoreSpec)                               *)
(***************************************************************************)
\* the positions of the signals of a severity
Positions(signals, severity) == {k \in DOMAIN signals : signals[k].severity = severity}

Lowest(S) == CHOOSE k \in S : \A j \in S : k <= j

\* the position of the primary signal: the first CRITICAL one, else the
\* first HIGH one, else the first
PrimaryPosition(signals) ==
    IF Positions(signals, "CRITICAL") # {} THEN Lowest(Positions(signals, "CRITICAL"))
    ELSE IF Positions(signals, "HIGH") # {} THEN Lowest(Positions(signals, "HIGH"))
    ELSE 1

\* C23: for a non-empty signal list the fingerprint's pattern is the type of
\* the first CRITICAL signal in detection order if there is one, otherwise of
\* the first HIGH signal, otherwise of the first signal; category,
\* description, rootCause and recommendedAction are those of that same
\* signal, and votingSummary.total is the number of fired signals.
C23_FingerprintOfPrimarySignal ==
    (Returned /\ callSignals # <<>>) =>
        LET primary == callSignals[PrimaryPosition(callSignals)]
            fingerprint == Result.fingerprint[1]
        IN /\ Result.fingerprint # Null
           /\ fingerprint.pattern = primary.type
           /\ fingerprint.category = primary.category
           /\ fingerprint.description = primary.message
           /\ fingerprint.rootCause = getRootCause(primary.type)
           /\ fingerprint.recommendedAction = getRecommendedAction(primary.type)
           /\ fingerprint.votingSummary.total = Len(callSignals)

\* a LOW, a HIGH and a CRITICAL signal fired in that order, and the
\* fingerprint is that of the third
C23_Witness ==
    /\ Returned
    /\ Len(callSignals) = 3
    /\ callSignals[1].severity = "LOW"
    /\ callSignals[2].severity = "HIGH"
    /\ callSignals[3].severity = "CRITICAL"
    /\ callSignals[3].type = "BUSINESS_RULE"
    /\ Result.fingerprint[1].pattern = "BUSINESS_RULE"
    /\ Result.fingerprint[1].description = ExceedsMaximum
    /\ Result.fingerprint[1].category = "BUSINESS"
    /\ Result.fingerprint[1].votingSummary.total = 3

(***************************************************************************)
(* The histories and the timeline late in a session (checked under         *)
(* HistorySpec)                                                            *)
(***************************************************************************)
\* the n most recent entries of s, oldest first
MostRecent(s, n) ==
    [k \in 1..(IF Len(s) < n THEN Len(s) ELSE n) |->
        s[k + (IF Len(s) < n THEN 0 ELSE Len(s) - n)]]

HistoriesWithinCapacity ==
    /\ Len(valueHistory) <= 10
    /\ Len(signalHistory) <= persistenceWindow

\* C24: valueHistory never holds more than 10 values and signalHistory never
\* more than 3 counts; an evaluation that produces a result appends its
\* latest value and its signal count, one entry each, at the newest end and
\* only the oldest entry leaves when the capacity is exceeded; no other step
\* (failure, injection, timer, record, write) touches valueHistory, and none
\* but resetNormal, which empties it, touches signalHistory.
C24_HistoriesKeepMostRecent ==
    /\ []HistoriesWithinCapacity
    /\ [][/\ \A a \in DOMAIN audits :
                Scores(a) =>
                   /\ valueHistory' =
                         MostRecent(valueHistory \o <<audits'[a].result[1].latestValue>>, 10)
                   /\ signalHistory' =
                         MostRecent(signalHistory \o <<audits'[a].result[1].signalsFired>>,
                                    persistenceWindow)
          /\ (\A a \in DOMAIN audits : ~Scores(a)) =>
                /\ valueHistory' = valueHistory
                /\ signalHistory' \in {signalHistory, <<>>}]_vars

\* the tenth value was recorded, and the two evaluations after it (real
\* data after a reset, then the Dupe button) pushed out the two oldest
C24_Witness ==
    /\ InFlight = 0
    /\ Len(valueHistory) = 10
    /\ SubSeq(valueHistory, 1, 7) = SubSeq(ReplayedValues, 3, 9)
    /\ valueHistory[9] = 12
    /\ valueHistory[10] = 13
    /\ signalHistory = <<0, 1>>

\* the step in which runAudit records the result of audit a
Records(a) ==
    /\ audits[a].pc = "settled"
    /\ audits[a].outcome = "result"
    /\ audits'[a] # audits[a]

\* the first n entries of s
Front(s, n) == SubSeq(s, 1, IF Len(s) < n THEN Len(s) ELSE n)

\* C25: every evaluation that produces a result is logged: the step that
\* records it puts one entry with its trustScore, status and signal count at
\* the front of trustTimeline and keeps the 4 newest of the entries that
\* were there, in their order; no other step changes the timeline, and it
\* never holds more than 5 entries.
C25_TimelineOfLastFive ==
    /\ [](Len(trustTimeline) <= 5)
    /\ [][/\ \A a \in DOMAIN audits :
                Records(a) =>
                   /\ audits'[a].pc = "writing"
                   /\ Len(trustTimeline') = (IF Len(trustTimeline) < 5
                                             THEN Len(trustTimeline) + 1 ELSE 5)
                   /\ trustTimeline'[1].trustScore = audits[a].result[1].trustScore
                   /\ trustTimeline'[1].status = audits[a].result[1].status
                   /\ trustTimeline'[1].signals = audits[a].result[1].signalsFired
                   /\ Tail(trustTimeline') = Front(trustTimeline, 4)
          /\ (\A a \in DOMAIN audits : ~Records(a)) => trustTimeline' = trustTimeline]_vars

\* the tenth evaluation (real data after a reset, SAFE) is at the front of a
\* full timeline, and the entry of the sixth (the Dupe button, one signal)
\* is now the oldest
C25_Witness ==
    /\ checkCount = 10
    /\ Len(trustTimeline) = 5
    /\ trustTimeline[1].status = "SAFE"
    /\ trustTimeline[1].signals = 0
    /\ trustTimeline[1].trustScore = FullTrust
    /\ trustTimeline[2].signals = 2
    /\ trustTimeline[5].signals = 1

\* C26: when evaluations overlap, once all of them have finished the value
\* last written to the host parameter is the isSafe of lastAnalysis, the
\* result of the evaluation that completed its analysis last: the write of an
\* older evaluation never lands after the write of a newer one.  (No write
\* fails in HistorySpec, so every recorded result is written.)
C26_LastWriteIsLastAnalysis ==
    (InFlight = 0 /\ lastAnalysis # Null) => hostParameter = lastAnalysis[1].isSafe

(***************************************************************************)
(* Single-category evaluations (checked under ScoreSpec)                   *)
(***************************************************************************)
AllOfCategory(signals, category) ==
    /\ signals # <<>>
    /\ \A k \in DOMAIN signals : signals[k].category = category

Verdicts(result) ==
    [status |-> result.status, isSafe |-> result.isSafe,
     trustScore |-> result.trustScore, signalDetails |-> result.signalDetails,
     persistentAnomaly |-> result.persistentAnomaly]

\* what an evaluation of table i comes to (in a singleton set), as a
\* function of the table, of the configuration (demoAnomalyActive,
\* demoAnomalyValue, zScoreThreshold, heroMetricField) and of signalHistory;
\* valueHistory, trustTimeline, lastAnalysis and checkCount do not occur in it
Outcome(i) ==
    {Verdicts(calculateEnsembleTrustScore(
                  LatestValue(Read(i).values), signals, Read(i).duplicateInfo,
                  PushCapped(signalHistory, Len(signals), persistenceWindow))) :
        signals \in {SignalsOf(Read(i), LatestValue(Read(i).values))}}

EndsWithTwoZeros(history) ==
    /\ Len(history) >= 2
    /\ history[Len(history)] = 0
    /\ history[Len(history) - 1] = 0

\* the result carries the score of its signals with nothing subtracted
Unpenalised(result) == result.trustScore = ClampedScore(result.signalDetails)

\* C30: after two consecutive successful evaluations without signals the
\* persistence check is false; a signal-bearing evaluation that follows
\* them (signalHistory [0, 0, n]) is not persistent and keeps its score; and
\* an evaluation whose score was lowered by the penalty fired a signal and
\* had a signal-bearing evaluation among the two before it.
C30_AntiFlappingRecovery ==
    [][\A a \in DOMAIN audits :
          Scores(a) =>
             /\ EndsWithTwoZeros(signalHistory') =>
                   ~audits'[a].result[1].persistentAnomaly
             /\ (EndsWithTwoZeros(signalHistory) /\ audits'[a].result[1].signalsFired > 0) =>
                   /\ signalHistory' = <<0, 0, audits'[a].result[1].signalsFired>>
                   /\ ~audits'[a].result[1].persistentAnomaly
                   /\ Unpenalised(audits'[a].result[1])
             /\ ~Unpenalised(audits'[a].result[1]) =>
                   /\ audits'[a].result[1].signalsFired > 0
                   /\ Len(signalHistory) >= persistenceWindow - 1
                   /\ CountPositive(LastN(signalHistory, persistenceWindow - 1)) >= 1]_vars

\* two evaluations of the clean table were followed by one of the value 2.0:
\* two signals fired, the history is [0, 0, 2], and the WARNING or LOCKED
\* verdict comes from the score of the signals alone
C30_Witness ==
    \E a \in DOMAIN audits :
        /\ audits[a].pc = "settled"
        /\ audits[a].outcome = "result"
        /\ signalHistory = <<0, 0, 2>>
        /\ audits[a].result[1].latestValue = 200
        /\ audits[a].result[1].signalsFired = 2
        /\ ~audits[a].result[1].persistentAnomaly
        /\ Unpenalised(audits[a].result[1])
        /\ audits[a].result[1].trustScore < FullTrust

=============================================================================
